---- MODULE Spec2Model ----
(***************************************************************************)
(* Bandwidth-aware scheduling engine of ai-task-scheduler.                 *)
(*                                                                         *)
(*   - Assignment Planner: SmartScheduler.assignTasksWithBandwidth, the    *)
(*     12-week revision (src/lib/ai/types.ts lines 86-352).                *)
(*   - Timeline Projector: TaskScheduler.calculateProjectSchedule          *)
(*     (src/unnamed/part_000).                                             *)
(*                                                                         *)
(* Conventions.                                                            *)
(*   An optional JavaScript value (undefined / null / a value) is the      *)
(*   empty tuple Null or the one-element tuple Some(v).                    *)
(*   A JavaScript string on which the code computes (role labels) is the   *)
(*   tuple of its characters; strings that are only copied are TLA+        *)
(*   strings.  Hours are integers; the score is a JavaScript number, an    *)
(*   IEEE 754 double computed with the roundings of the code.              *)
(*   Task ids are the positions of the tasks in the caller's list, and     *)
(*   resource ids the positions of the resources in the caller's list.     *)
(***************************************************************************)
EXTENDS Integers, Sequences, FiniteSets, TLC

VARIABLES
  \* ---- planner (SmartScheduler.assignTasksWithBandwidth) ----
  pc,                    \* "start", "loop", "done", "threw": position in the call
  tasks,                 \* the caller's task array (sorted in place by the call)
  resources,             \* the caller's resource array
  schedules,             \* const schedules: ResourceWeeklySchedule[]
  sortedTasks,           \* const sortedTasks (the same array object as tasks)
  idx,                   \* position of the for..of loop in sortedTasks
  assignments,           \* const assignments: TaskAssignment[]
  immediateAssignments,
  deferredAssignments,
  overflowTasks,
  preview,               \* the returned AssignmentPreview (Null until return)
  schedulingSummary,     \* what getSchedulingSummary(preview) returned (Null before)
  \* ---- projector (TaskScheduler.calculateProjectSchedule) ----
  projPc,                \* "start", "loop", "done": position in the call
  projTasks,             \* the caller's task tree
  currentDate,           \* the reference date, a day number (day 0 is a Sunday)
  resourceSchedules,     \* const resourceSchedules: Map<string, ResourceSchedule>
  taskTimelines,         \* const taskTimelines: Map<string, TaskTimeline>
  projSorted,            \* const sortedTasks
  projIdx,               \* position of sortedTasks.forEach
  projResult,            \* the returned { taskTimelines, resourceSchedules }
  projCalls,             \* number of calls of the projector made so far
  projPrevious           \* the previous call: its arguments and result (Null in the first)

plannerVars == <<pc, tasks, resources, schedules, sortedTasks, idx, assignments,
                 immediateAssignments, deferredAssignments, overflowTasks, preview,
                 schedulingSummary>>

projVars == <<projPc, projTasks, currentDate, resourceSchedules, taskTimelines,
              projSorted, projIdx, projResult, projCalls, projPrevious>>

vars == <<plannerVars, projVars>>

-----------------------------------------------------------------------------
(* Optional values and small helpers *)

Null == <<>>
Some(v) == <<v>>
IsNull(o) == o = Null
Val(o) == o[1]

\* JavaScript `x || 0` on an optional number.
OrZero(o) == IF IsNull(o) THEN 0 ELSE IF Val(o) = 0 THEN 0 ELSE Val(o)

\* JavaScript truthiness of an optional number: undefined, null and 0 are falsy.
NumTruthy(o) == IF IsNull(o) THEN FALSE ELSE Val(o) # 0

Max(a, b) == IF a >= b THEN a ELSE b
Min(a, b) == IF a <= b THEN a ELSE b

-----------------------------------------------------------------------------
(* Role labels as character tuples *)

sEmpty      == <<>>
sAny        == <<"a","n","y">>
sDesigner   == <<"d","e","s","i","g","n","e","r">>
sUIDesigner == <<"U","I"," ","D","e","s","i","g","n","e","r">>
sManager    == <<"m","a","n","a","g","e","r">>
sManagerC   == <<"M","a","n","a","g","e","r">>
sOther      == <<"O","t","h","e","r">>
sGeneral    == <<"G","e","n","e","r","a","l">>

\* A character of the Basic Latin and Latin-1 Supplement blocks is written as
\* itself, a character above U+00FF as the name of its code point: "U+" and
\* the hexadecimal digits of the code point n, four at least.
codePointName(n) ==
  LET digit(k) == << "0", "1", "2", "3", "4", "5", "6", "7",
                     "8", "9", "A", "B", "C", "D", "E", "F" >>[((n \div 16^k) % 16) + 1]
  IN  "U+" \o (IF n >= 16^5 THEN digit(5) ELSE "") \o (IF n >= 16^4 THEN digit(4) ELSE "")
           \o digit(3) \o digit(2) \o digit(1) \o digit(0)

\* The simple lower-case mappings of Unicode 17.0, the version of the tables
\* of String.prototype.toLowerCase, as pairs <<letter, lower case>>,
\* of the letters up to U+00FF and of the letters whose lower case is up to
\* U+00FF.
LowerCasePairs ==
  {
    <<"A", "a">>, <<"B", "b">>, <<"C", "c">>, <<"D", "d">>, <<"E", "e">>, <<"F", "f">>,
    <<"G", "g">>, <<"H", "h">>, <<"I", "i">>, <<"J", "j">>, <<"K", "k">>, <<"L", "l">>,
    <<"M", "m">>, <<"N", "n">>, <<"O", "o">>, <<"P", "p">>, <<"Q", "q">>, <<"R", "r">>,
    <<"S", "s">>, <<"T", "t">>, <<"U", "u">>, <<"V", "v">>, <<"W", "w">>, <<"X", "x">>,
    <<"Y", "y">>, <<"Z", "z">>, <<"À", "à">>, <<"Á", "á">>, <<"Â", "â">>, <<"Ã", "ã">>,
    <<"Ä", "ä">>, <<"Å", "å">>, <<"Æ", "æ">>, <<"Ç", "ç">>, <<"È", "è">>, <<"É", "é">>,
    <<"Ê", "ê">>, <<"Ë", "ë">>, <<"Ì", "ì">>, <<"Í", "í">>, <<"Î", "î">>, <<"Ï", "ï">>,
    <<"Ð", "ð">>, <<"Ñ", "ñ">>, <<"Ò", "ò">>, <<"Ó", "ó">>, <<"Ô", "ô">>, <<"Õ", "õ">>,
    <<"Ö", "ö">>, <<"Ø", "ø">>, <<"Ù", "ù">>, <<"Ú", "ú">>, <<"Û", "û">>, <<"Ü", "ü">>,
    <<"Ý", "ý">>, <<"Þ", "þ">>, <<"U+0178", "ÿ">>, <<"U+1E9E", "ß">>, <<"U+212A", "k">>,
    <<"U+212B", "å">> }

\* The simple lower-case mappings of the other letters, by code point: a rule
\* <<first, last, step, delta>> maps first, first + step, ... up to last to the
\* code point delta above.
LowerCaseRules ==
  {
    <<256, 302, 2, 1>>, <<306, 310, 2, 1>>, <<313, 327, 2, 1>>, <<330, 374, 2, 1>>,
    <<377, 381, 2, 1>>, <<385, 385, 1, 210>>, <<386, 388, 2, 1>>, <<390, 390, 1, 206>>,
    <<391, 391, 1, 1>>, <<393, 394, 1, 205>>, <<395, 395, 1, 1>>, <<398, 398, 1, 79>>,
    <<399, 399, 1, 202>>, <<400, 400, 1, 203>>, <<401, 401, 1, 1>>,
    <<403, 403, 1, 205>>, <<404, 404, 1, 207>>, <<406, 406, 1, 211>>,
    <<407, 407, 1, 209>>, <<408, 408, 1, 1>>, <<412, 412, 1, 211>>,
    <<413, 413, 1, 213>>, <<415, 415, 1, 214>>, <<416, 420, 2, 1>>,
    <<422, 422, 1, 218>>, <<423, 423, 1, 1>>, <<425, 425, 1, 218>>, <<428, 428, 1, 1>>,
    <<430, 430, 1, 218>>, <<431, 431, 1, 1>>, <<433, 434, 1, 217>>, <<435, 437, 2, 1>>,
    <<439, 439, 1, 219>>, <<440, 440, 1, 1>>, <<444, 444, 1, 1>>, <<452, 452, 1, 2>>,
    <<453, 453, 1, 1>>, <<455, 455, 1, 2>>, <<456, 456, 1, 1>>, <<458, 458, 1, 2>>,
    <<459, 475, 2, 1>>, <<478, 494, 2, 1>>, <<497, 497, 1, 2>>, <<498, 500, 2, 1>>,
    <<502, 502, 1, -97>>, <<503, 503, 1, -56>>, <<504, 542, 2, 1>>,
    <<544, 544, 1, -130>>, <<546, 562, 2, 1>>, <<570, 570, 1, 10795>>,
    <<571, 571, 1, 1>>, <<573, 573, 1, -163>>, <<574, 574, 1, 10792>>,
    <<577, 577, 1, 1>>, <<579, 579, 1, -195>>, <<580, 580, 1, 69>>, <<581, 581, 1, 71>>,
    <<582, 590, 2, 1>>, <<880, 882, 2, 1>>, <<886, 886, 1, 1>>, <<895, 895, 1, 116>>,
    <<902, 902, 1, 38>>, <<904, 906, 1, 37>>, <<908, 908, 1, 64>>, <<910, 911, 1, 63>>,
    <<913, 929, 1, 32>>, <<931, 939, 1, 32>>, <<975, 975, 1, 8>>, <<984, 1006, 2, 1>>,
    <<1012, 1012, 1, -60>>, <<1015, 1015, 1, 1>>, <<1017, 1017, 1, -7>>,
    <<1018, 1018, 1, 1>>, <<1021, 1023, 1, -130>>, <<1024, 1039, 1, 80>>,
    <<1040, 1071, 1, 32>>, <<1120, 1152, 2, 1>>, <<1162, 1214, 2, 1>>,
    <<1216, 1216, 1, 15>>, <<1217, 1229, 2, 1>>, <<1232, 1326, 2, 1>>,
    <<1329, 1366, 1, 48>>, <<4256, 4293, 1, 7264>>, <<4295, 4295, 1, 7264>>,
    <<4301, 4301, 1, 7264>>, <<5024, 5103, 1, 38864>>, <<5104, 5109, 1, 8>>,
    <<7305, 7305, 1, 1>>, <<7312, 7354, 1, -3008>>, <<7357, 7359, 1, -3008>>,
    <<7680, 7828, 2, 1>>, <<7840, 7934, 2, 1>>, <<7944, 7951, 1, -8>>,
    <<7960, 7965, 1, -8>>, <<7976, 7983, 1, -8>>, <<7992, 7999, 1, -8>>,
    <<8008, 8013, 1, -8>>, <<8025, 8031, 2, -8>>, <<8040, 8047, 1, -8>>,
    <<8072, 8079, 1, -8>>, <<8088, 8095, 1, -8>>, <<8104, 8111, 1, -8>>,
    <<8120, 8121, 1, -8>>, <<8122, 8123, 1, -74>>, <<8124, 8124, 1, -9>>,
    <<8136, 8139, 1, -86>>, <<8140, 8140, 1, -9>>, <<8152, 8153, 1, -8>>,
    <<8154, 8155, 1, -100>>, <<8168, 8169, 1, -8>>, <<8170, 8171, 1, -112>>,
    <<8172, 8172, 1, -7>>, <<8184, 8185, 1, -128>>, <<8186, 8187, 1, -126>>,
    <<8188, 8188, 1, -9>>, <<8486, 8486, 1, -7517>>, <<8498, 8498, 1, 28>>,
    <<8544, 8559, 1, 16>>, <<8579, 8579, 1, 1>>, <<9398, 9423, 1, 26>>,
    <<11264, 11311, 1, 48>>, <<11360, 11360, 1, 1>>, <<11362, 11362, 1, -10743>>,
    <<11363, 11363, 1, -3814>>, <<11364, 11364, 1, -10727>>, <<11367, 11371, 2, 1>>,
    <<11373, 11373, 1, -10780>>, <<11374, 11374, 1, -10749>>,
    <<11375, 11375, 1, -10783>>, <<11376, 11376, 1, -10782>>, <<11378, 11378, 1, 1>>,
    <<11381, 11381, 1, 1>>, <<11390, 11391, 1, -10815>>, <<11392, 11490, 2, 1>>,
    <<11499, 11501, 2, 1>>, <<11506, 11506, 1, 1>>, <<42560, 42604, 2, 1>>,
    <<42624, 42650, 2, 1>>, <<42786, 42798, 2, 1>>, <<42802, 42862, 2, 1>>,
    <<42873, 42875, 2, 1>>, <<42877, 42877, 1, -35332>>, <<42878, 42886, 2, 1>>,
    <<42891, 42891, 1, 1>>, <<42893, 42893, 1, -42280>>, <<42896, 42898, 2, 1>>,
    <<42902, 42920, 2, 1>>, <<42922, 42922, 1, -42308>>, <<42923, 42923, 1, -42319>>,
    <<42924, 42924, 1, -42315>>, <<42925, 42925, 1, -42305>>,
    <<42926, 42926, 1, -42308>>, <<42928, 42928, 1, -42258>>,
    <<42929, 42929, 1, -42282>>, <<42930, 42930, 1, -42261>>, <<42931, 42931, 1, 928>>,
    <<42932, 42946, 2, 1>>, <<42948, 42948, 1, -48>>, <<42949, 42949, 1, -42307>>,
    <<42950, 42950, 1, -35384>>, <<42951, 42953, 2, 1>>, <<42955, 42955, 1, -42343>>,
    <<42956, 42970, 2, 1>>, <<42972, 42972, 1, -42561>>, <<42997, 42997, 1, 1>>,
    <<65313, 65338, 1, 32>>, <<66560, 66599, 1, 40>>, <<66736, 66771, 1, 40>>,
    <<66928, 66964, 2, 39>>, <<66929, 66937, 2, 39>>, <<66941, 66953, 2, 39>>,
    <<66957, 66961, 2, 39>>, <<66965, 66965, 1, 39>>, <<68736, 68786, 1, 64>>,
    <<68944, 68965, 1, 32>>, <<71840, 71871, 1, 32>>, <<93760, 93791, 1, 32>>,
    <<93856, 93880, 1, 27>>, <<125184, 125217, 1, 34>> }

\* The lower case of one letter that has a simple lower-case mapping.
UpperToLower ==
  LET pairs == LowerCasePairs
                 \cup UNION { { <<codePointName(n), codePointName(n + r[4])>> :
                                  n \in { m \in r[1]..r[2] : (m - r[1]) % r[3] = 0 } } :
                              r \in LowerCaseRules }
  IN  [c \in { p[1] : p \in pairs } |-> (CHOOSE p \in pairs : p[1] = c)[2]]

\* The characters with the property Cased of Unicode that are not
\* Case_Ignorable: the letters the Final_Sigma condition looks for. The
\* pairs are ranges <<first, last>> of code points.
CasedLetters ==
  {
    "A", "B", "C", "D", "E", "F", "G", "H", "I", "J", "K", "L", "M", "N", "O", "P", "Q",
    "R", "S", "T", "U", "V", "W", "X", "Y", "Z", "a", "b", "c", "d", "e", "f", "g", "h",
    "i", "j", "k", "l", "m", "n", "o", "p", "q", "r", "s", "t", "u", "v", "w", "x", "y",
    "z", "ª", "µ", "º", "À", "Á", "Â", "Ã", "Ä", "Å", "Æ", "Ç", "È", "É", "Ê", "Ë", "Ì",
    "Í", "Î", "Ï", "Ð", "Ñ", "Ò", "Ó", "Ô", "Õ", "Ö", "Ø", "Ù", "Ú", "Û", "Ü", "Ý", "Þ",
    "ß", "à", "á", "â", "ã", "ä", "å", "æ", "ç", "è", "é", "ê", "ë", "ì", "í", "î", "ï",
    "ð", "ñ", "ò", "ó", "ô", "õ", "ö", "ø", "ù", "ú", "û", "ü", "ý", "þ", "ÿ" }
    \cup UNION { { codePointName(n) : n \in r[1]..r[2] } : r \in {
      <<256, 442>>, <<444, 447>>, <<452, 659>>, <<662, 687>>, <<880, 883>>,
      <<886, 887>>, <<891, 893>>, <<895, 895>>, <<902, 902>>, <<904, 906>>,
      <<908, 908>>, <<910, 929>>, <<931, 1013>>, <<1015, 1153>>, <<1162, 1327>>,
      <<1329, 1366>>, <<1376, 1416>>, <<4256, 4293>>, <<4295, 4295>>, <<4301, 4301>>,
      <<4304, 4346>>, <<4349, 4351>>, <<5024, 5109>>, <<5112, 5117>>, <<7296, 7306>>,
      <<7312, 7354>>, <<7357, 7359>>, <<7424, 7467>>, <<7531, 7543>>, <<7545, 7578>>,
      <<7680, 7957>>, <<7960, 7965>>, <<7968, 8005>>, <<8008, 8013>>, <<8016, 8023>>,
      <<8025, 8025>>, <<8027, 8027>>, <<8029, 8029>>, <<8031, 8061>>, <<8064, 8116>>,
      <<8118, 8124>>, <<8126, 8126>>, <<8130, 8132>>, <<8134, 8140>>, <<8144, 8147>>,
      <<8150, 8155>>, <<8160, 8172>>, <<8178, 8180>>, <<8182, 8188>>, <<8450, 8450>>,
      <<8455, 8455>>, <<8458, 8467>>, <<8469, 8469>>, <<8473, 8477>>, <<8484, 8484>>,
      <<8486, 8486>>, <<8488, 8488>>, <<8490, 8493>>, <<8495, 8500>>, <<8505, 8505>>,
      <<8508, 8511>>, <<8517, 8521>>, <<8526, 8526>>, <<8544, 8575>>, <<8579, 8580>>,
      <<9398, 9449>>, <<11264, 11387>>, <<11390, 11492>>, <<11499, 11502>>,
      <<11506, 11507>>, <<11520, 11557>>, <<11559, 11559>>, <<11565, 11565>>,
      <<42560, 42605>>, <<42624, 42651>>, <<42786, 42863>>, <<42865, 42887>>,
      <<42891, 42894>>, <<42896, 42972>>, <<42997, 42998>>, <<43002, 43002>>,
      <<43824, 43866>>, <<43872, 43880>>, <<43888, 43967>>, <<64256, 64262>>,
      <<64275, 64279>>, <<65313, 65338>>, <<65345, 65370>>, <<66560, 66639>>,
      <<66736, 66771>>, <<66776, 66811>>, <<66928, 66938>>, <<66940, 66954>>,
      <<66956, 66962>>, <<66964, 66965>>, <<66967, 66977>>, <<66979, 66993>>,
      <<66995, 67001>>, <<67003, 67004>>, <<68736, 68786>>, <<68800, 68850>>,
      <<68944, 68965>>, <<68976, 68997>>, <<71840, 71903>>, <<93760, 93823>>,
      <<93856, 93880>>, <<93883, 93907>>, <<119808, 119892>>, <<119894, 119964>>,
      <<119966, 119967>>, <<119970, 119970>>, <<119973, 119974>>, <<119977, 119980>>,
      <<119982, 119993>>, <<119995, 119995>>, <<119997, 120003>>, <<120005, 120069>>,
      <<120071, 120074>>, <<120077, 120084>>, <<120086, 120092>>, <<120094, 120121>>,
      <<120123, 120126>>, <<120128, 120132>>, <<120134, 120134>>, <<120138, 120144>>,
      <<120146, 120485>>, <<120488, 120512>>, <<120514, 120538>>, <<120540, 120570>>,
      <<120572, 120596>>, <<120598, 120628>>, <<120630, 120654>>, <<120656, 120686>>,
      <<120688, 120712>>, <<120714, 120744>>, <<120746, 120770>>, <<120772, 120779>>,
      <<122624, 122633>>, <<122635, 122654>>, <<122661, 122666>>, <<125184, 125251>>,
      <<127280, 127305>>, <<127312, 127337>>, <<127344, 127369>> } }

\* The characters with the property Case_Ignorable of Unicode, which the
\* Final_Sigma condition skips. The grave accent is written as the name of
\* its code point.
CaseIgnorable ==
  {
    "'", ".", ":", "^", "U+0060", "¨", "­", "¯", "´", "·", "¸" }
    \cup UNION { { codePointName(n) : n \in r[1]..r[2] } : r \in {
      <<688, 879>>, <<884, 885>>, <<890, 890>>, <<900, 901>>, <<903, 903>>,
      <<1155, 1161>>, <<1369, 1369>>, <<1375, 1375>>, <<1425, 1469>>, <<1471, 1471>>,
      <<1473, 1474>>, <<1476, 1477>>, <<1479, 1479>>, <<1524, 1524>>, <<1536, 1541>>,
      <<1552, 1562>>, <<1564, 1564>>, <<1600, 1600>>, <<1611, 1631>>, <<1648, 1648>>,
      <<1750, 1757>>, <<1759, 1768>>, <<1770, 1773>>, <<1807, 1807>>, <<1809, 1809>>,
      <<1840, 1866>>, <<1958, 1968>>, <<2027, 2037>>, <<2042, 2042>>, <<2045, 2045>>,
      <<2070, 2093>>, <<2137, 2139>>, <<2184, 2184>>, <<2192, 2193>>, <<2199, 2207>>,
      <<2249, 2306>>, <<2362, 2362>>, <<2364, 2364>>, <<2369, 2376>>, <<2381, 2381>>,
      <<2385, 2391>>, <<2402, 2403>>, <<2417, 2417>>, <<2433, 2433>>, <<2492, 2492>>,
      <<2497, 2500>>, <<2509, 2509>>, <<2530, 2531>>, <<2558, 2558>>, <<2561, 2562>>,
      <<2620, 2620>>, <<2625, 2626>>, <<2631, 2632>>, <<2635, 2637>>, <<2641, 2641>>,
      <<2672, 2673>>, <<2677, 2677>>, <<2689, 2690>>, <<2748, 2748>>, <<2753, 2757>>,
      <<2759, 2760>>, <<2765, 2765>>, <<2786, 2787>>, <<2810, 2815>>, <<2817, 2817>>,
      <<2876, 2876>>, <<2879, 2879>>, <<2881, 2884>>, <<2893, 2893>>, <<2901, 2902>>,
      <<2914, 2915>>, <<2946, 2946>>, <<3008, 3008>>, <<3021, 3021>>, <<3072, 3072>>,
      <<3076, 3076>>, <<3132, 3132>>, <<3134, 3136>>, <<3142, 3144>>, <<3146, 3149>>,
      <<3157, 3158>>, <<3170, 3171>>, <<3201, 3201>>, <<3260, 3260>>, <<3263, 3263>>,
      <<3270, 3270>>, <<3276, 3277>>, <<3298, 3299>>, <<3328, 3329>>, <<3387, 3388>>,
      <<3393, 3396>>, <<3405, 3405>>, <<3426, 3427>>, <<3457, 3457>>, <<3530, 3530>>,
      <<3538, 3540>>, <<3542, 3542>>, <<3633, 3633>>, <<3636, 3642>>, <<3654, 3662>>,
      <<3761, 3761>>, <<3764, 3772>>, <<3782, 3782>>, <<3784, 3790>>, <<3864, 3865>>,
      <<3893, 3893>>, <<3895, 3895>>, <<3897, 3897>>, <<3953, 3966>>, <<3968, 3972>>,
      <<3974, 3975>>, <<3981, 3991>>, <<3993, 4028>>, <<4038, 4038>>, <<4141, 4144>>,
      <<4146, 4151>>, <<4153, 4154>>, <<4157, 4158>>, <<4184, 4185>>, <<4190, 4192>>,
      <<4209, 4212>>, <<4226, 4226>>, <<4229, 4230>>, <<4237, 4237>>, <<4253, 4253>>,
      <<4348, 4348>>, <<4957, 4959>>, <<5906, 5908>>, <<5938, 5939>>, <<5970, 5971>>,
      <<6002, 6003>>, <<6068, 6069>>, <<6071, 6077>>, <<6086, 6086>>, <<6089, 6099>>,
      <<6103, 6103>>, <<6109, 6109>>, <<6155, 6159>>, <<6211, 6211>>, <<6277, 6278>>,
      <<6313, 6313>>, <<6432, 6434>>, <<6439, 6440>>, <<6450, 6450>>, <<6457, 6459>>,
      <<6679, 6680>>, <<6683, 6683>>, <<6742, 6742>>, <<6744, 6750>>, <<6752, 6752>>,
      <<6754, 6754>>, <<6757, 6764>>, <<6771, 6780>>, <<6783, 6783>>, <<6823, 6823>>,
      <<6832, 6877>>, <<6880, 6891>>, <<6912, 6915>>, <<6964, 6964>>, <<6966, 6970>>,
      <<6972, 6972>>, <<6978, 6978>>, <<7019, 7027>>, <<7040, 7041>>, <<7074, 7077>>,
      <<7080, 7081>>, <<7083, 7085>>, <<7142, 7142>>, <<7144, 7145>>, <<7149, 7149>>,
      <<7151, 7153>>, <<7212, 7219>>, <<7222, 7223>>, <<7288, 7293>>, <<7376, 7378>>,
      <<7380, 7392>>, <<7394, 7400>>, <<7405, 7405>>, <<7412, 7412>>, <<7416, 7417>>,
      <<7468, 7530>>, <<7544, 7544>>, <<7579, 7679>>, <<8125, 8125>>, <<8127, 8129>>,
      <<8141, 8143>>, <<8157, 8159>>, <<8173, 8175>>, <<8189, 8190>>, <<8203, 8207>>,
      <<8216, 8217>>, <<8228, 8228>>, <<8231, 8231>>, <<8234, 8238>>, <<8288, 8292>>,
      <<8294, 8303>>, <<8305, 8305>>, <<8319, 8319>>, <<8336, 8348>>, <<8400, 8432>>,
      <<11388, 11389>>, <<11503, 11505>>, <<11631, 11631>>, <<11647, 11647>>,
      <<11744, 11775>>, <<11823, 11823>>, <<12293, 12293>>, <<12330, 12333>>,
      <<12337, 12341>>, <<12347, 12347>>, <<12441, 12446>>, <<12540, 12542>>,
      <<40981, 40981>>, <<42232, 42237>>, <<42508, 42508>>, <<42607, 42610>>,
      <<42612, 42621>>, <<42623, 42623>>, <<42652, 42655>>, <<42736, 42737>>,
      <<42752, 42785>>, <<42864, 42864>>, <<42888, 42890>>, <<42993, 42996>>,
      <<43000, 43001>>, <<43010, 43010>>, <<43014, 43014>>, <<43019, 43019>>,
      <<43045, 43046>>, <<43052, 43052>>, <<43204, 43205>>, <<43232, 43249>>,
      <<43263, 43263>>, <<43302, 43309>>, <<43335, 43345>>, <<43392, 43394>>,
      <<43443, 43443>>, <<43446, 43449>>, <<43452, 43453>>, <<43471, 43471>>,
      <<43493, 43494>>, <<43561, 43566>>, <<43569, 43570>>, <<43573, 43574>>,
      <<43587, 43587>>, <<43596, 43596>>, <<43632, 43632>>, <<43644, 43644>>,
      <<43696, 43696>>, <<43698, 43700>>, <<43703, 43704>>, <<43710, 43711>>,
      <<43713, 43713>>, <<43741, 43741>>, <<43756, 43757>>, <<43763, 43764>>,
      <<43766, 43766>>, <<43867, 43871>>, <<43881, 43883>>, <<44005, 44005>>,
      <<44008, 44008>>, <<44013, 44013>>, <<64286, 64286>>, <<64434, 64450>>,
      <<65024, 65039>>, <<65043, 65043>>, <<65056, 65071>>, <<65106, 65106>>,
      <<65109, 65109>>, <<65279, 65279>>, <<65287, 65287>>, <<65294, 65294>>,
      <<65306, 65306>>, <<65342, 65342>>, <<65344, 65344>>, <<65392, 65392>>,
      <<65438, 65439>>, <<65507, 65507>>, <<65529, 65531>>, <<66045, 66045>>,
      <<66272, 66272>>, <<66422, 66426>>, <<67456, 67461>>, <<67463, 67504>>,
      <<67506, 67514>>, <<68097, 68099>>, <<68101, 68102>>, <<68108, 68111>>,
      <<68152, 68154>>, <<68159, 68159>>, <<68325, 68326>>, <<68900, 68903>>,
      <<68942, 68942>>, <<68969, 68973>>, <<68975, 68975>>, <<69291, 69292>>,
      <<69317, 69317>>, <<69370, 69375>>, <<69446, 69456>>, <<69506, 69509>>,
      <<69633, 69633>>, <<69688, 69702>>, <<69744, 69744>>, <<69747, 69748>>,
      <<69759, 69761>>, <<69811, 69814>>, <<69817, 69818>>, <<69821, 69821>>,
      <<69826, 69826>>, <<69837, 69837>>, <<69888, 69890>>, <<69927, 69931>>,
      <<69933, 69940>>, <<70003, 70003>>, <<70016, 70017>>, <<70070, 70078>>,
      <<70089, 70092>>, <<70095, 70095>>, <<70191, 70193>>, <<70196, 70196>>,
      <<70198, 70199>>, <<70206, 70206>>, <<70209, 70209>>, <<70367, 70367>>,
      <<70371, 70378>>, <<70400, 70401>>, <<70459, 70460>>, <<70464, 70464>>,
      <<70502, 70508>>, <<70512, 70516>>, <<70587, 70592>>, <<70606, 70606>>,
      <<70608, 70608>>, <<70610, 70610>>, <<70625, 70626>>, <<70712, 70719>>,
      <<70722, 70724>>, <<70726, 70726>>, <<70750, 70750>>, <<70835, 70840>>,
      <<70842, 70842>>, <<70847, 70848>>, <<70850, 70851>>, <<71090, 71093>>,
      <<71100, 71101>>, <<71103, 71104>>, <<71132, 71133>>, <<71219, 71226>>,
      <<71229, 71229>>, <<71231, 71232>>, <<71339, 71339>>, <<71341, 71341>>,
      <<71344, 71349>>, <<71351, 71351>>, <<71453, 71453>>, <<71455, 71455>>,
      <<71458, 71461>>, <<71463, 71467>>, <<71727, 71735>>, <<71737, 71738>>,
      <<71995, 71996>>, <<71998, 71998>>, <<72003, 72003>>, <<72148, 72151>>,
      <<72154, 72155>>, <<72160, 72160>>, <<72193, 72202>>, <<72243, 72248>>,
      <<72251, 72254>>, <<72263, 72263>>, <<72273, 72278>>, <<72281, 72283>>,
      <<72330, 72342>>, <<72344, 72345>>, <<72544, 72544>>, <<72546, 72548>>,
      <<72550, 72550>>, <<72752, 72758>>, <<72760, 72765>>, <<72767, 72767>>,
      <<72850, 72871>>, <<72874, 72880>>, <<72882, 72883>>, <<72885, 72886>>,
      <<73009, 73014>>, <<73018, 73018>>, <<73020, 73021>>, <<73023, 73029>>,
      <<73031, 73031>>, <<73104, 73105>>, <<73109, 73109>>, <<73111, 73111>>,
      <<73177, 73177>>, <<73459, 73460>>, <<73472, 73473>>, <<73526, 73530>>,
      <<73536, 73536>>, <<73538, 73538>>, <<73562, 73562>>, <<78896, 78912>>,
      <<78919, 78933>>, <<90398, 90409>>, <<90413, 90415>>, <<92912, 92916>>,
      <<92976, 92982>>, <<92992, 92995>>, <<93504, 93506>>, <<93547, 93548>>,
      <<94031, 94031>>, <<94095, 94111>>, <<94176, 94177>>, <<94179, 94180>>,
      <<94194, 94195>>, <<110576, 110579>>, <<110581, 110587>>, <<110589, 110590>>,
      <<113821, 113822>>, <<113824, 113827>>, <<118528, 118573>>, <<118576, 118598>>,
      <<119143, 119145>>, <<119155, 119170>>, <<119173, 119179>>, <<119210, 119213>>,
      <<119362, 119364>>, <<121344, 121398>>, <<121403, 121452>>, <<121461, 121461>>,
      <<121476, 121476>>, <<121499, 121503>>, <<121505, 121519>>, <<122880, 122886>>,
      <<122888, 122904>>, <<122907, 122913>>, <<122915, 122916>>, <<122918, 122922>>,
      <<122928, 122989>>, <<123023, 123023>>, <<123184, 123197>>, <<123566, 123566>>,
      <<123628, 123631>>, <<124139, 124143>>, <<124398, 124399>>, <<124643, 124643>>,
      <<124646, 124646>>, <<124654, 124655>>, <<124661, 124661>>, <<124671, 124671>>,
      <<125136, 125142>>, <<125252, 125259>>, <<127995, 127999>>, <<917505, 917505>>,
      <<917536, 917631>>, <<917760, 917999>> } }

\* The condition Final_Sigma of Unicode's SpecialCasing for the character at
\* i: a cased letter comes before it and none after it, case-ignorable
\* characters in between not counted.
isFinalSigma(s, i) ==
  /\ \E j \in 1..(i - 1) :
       s[j] \in CasedLetters /\ \A k \in (j + 1)..(i - 1) : s[k] \in CaseIgnorable
  /\ ~\E j \in (i + 1)..Len(s) :
       s[j] \in CasedLetters /\ \A k \in (i + 1)..(j - 1) : s[k] \in CaseIgnorable

\* toLowerCase from the character at i on: U+0130 becomes "i" and U+0307, a
\* final U+03A3 becomes U+03C2, every other letter its simple lower case.
RECURSIVE toLowerCaseFrom(_, _)
toLowerCaseFrom(s, i) ==
  IF i > Len(s) THEN <<>>
  ELSE (IF s[i] = "U+0130" THEN <<"i", "U+0307">>
        ELSE IF s[i] = "U+03A3" /\ isFinalSigma(s, i) THEN <<"U+03C2">>
        ELSE IF s[i] \in DOMAIN UpperToLower THEN <<UpperToLower[s[i]]>>
        ELSE <<s[i]>>)
       \o toLowerCaseFrom(s, i + 1)

\* String.prototype.toLowerCase
toLowerCase(s) == toLowerCaseFrom(s, 1)

\* String.prototype.includes
includes(s, sub) ==
  \E i \in 0..(Len(s) - Len(sub)) : SubSeq(s, i + 1, i + Len(sub)) = sub

\* The characters String.prototype.trim strips, WhiteSpace and LineTerminator of
\* ECMAScript: U+0009 to U+000D, U+0020, U+00A0, U+1680, U+2000 to U+200A,
\* U+2028, U+2029, U+202F, U+205F, U+3000 and U+FEFF.
WhiteSpace ==
  { "\t", "\n", "", "\f", "\r", " ", " ",
    "U+1680", "U+2000", "U+2001", "U+2002", "U+2003", "U+2004", "U+2005",
    "U+2006", "U+2007", "U+2008", "U+2009", "U+200A", "U+2028", "U+2029",
    "U+202F", "U+205F", "U+3000", "U+FEFF" }

\* String.prototype.trimStart
RECURSIVE trimStart(_)
trimStart(s) == IF s # <<>> /\ Head(s) \in WhiteSpace THEN trimStart(Tail(s)) ELSE s

\* String.prototype.trimEnd
RECURSIVE trimEnd(_)
trimEnd(s) ==
  IF s # <<>> /\ s[Len(s)] \in WhiteSpace THEN trimEnd(SubSeq(s, 1, Len(s) - 1)) ELSE s

\* String.prototype.trim
trim(s) == trimEnd(trimStart(s))

-----------------------------------------------------------------------------
(* Natural numbers of any size, for the significands of JavaScript numbers:  *)
(* the tuple of the digits in base 2^LimbBits, least significant first,     *)
(* without a leading zero digit; <<>> is 0.                                  *)

LimbBits == 15
LimbBase == 2^LimbBits

RECURSIVE natNorm(_)
natNorm(n) == IF n # <<>> /\ n[Len(n)] = 0 THEN natNorm(SubSeq(n, 1, Len(n) - 1)) ELSE n

RECURSIVE natOfInt(_)
natOfInt(i) == IF i = 0 THEN <<>> ELSE <<i % LimbBase>> \o natOfInt(i \div LimbBase)

RECURSIVE natAddCarry(_, _, _)
natAddCarry(a, b, carry) ==
  IF a = <<>> /\ b = <<>> THEN natOfInt(carry)
  ELSE LET sum == (IF a = <<>> THEN 0 ELSE Head(a)) + (IF b = <<>> THEN 0 ELSE Head(b)) + carry
       IN  <<sum % LimbBase>> \o natAddCarry(IF a = <<>> THEN <<>> ELSE Tail(a),
                                             IF b = <<>> THEN <<>> ELSE Tail(b),
                                             sum \div LimbBase)

natAdd(a, b) == natAddCarry(a, b, 0)

RECURSIVE natSubBorrow(_, _, _)
natSubBorrow(a, b, borrow) ==
  IF a = <<>> THEN <<>>
  ELSE LET d == Head(a) - (IF b = <<>> THEN 0 ELSE Head(b)) - borrow
       IN  <<IF d < 0 THEN d + LimbBase ELSE d>>
             \o natSubBorrow(Tail(a), IF b = <<>> THEN <<>> ELSE Tail(b), IF d < 0 THEN 1 ELSE 0)

\* a - b for a >= b
natSub(a, b) == natNorm(natSubBorrow(a, b, 0))

RECURSIVE natCmpFrom(_, _, _)
natCmpFrom(a, b, i) ==
  IF i = 0 THEN 0
  ELSE IF a[i] > b[i] THEN 1
  ELSE IF a[i] < b[i] THEN -1
  ELSE natCmpFrom(a, b, i - 1)

\* 1, 0 or -1 as a is above, equal to or below b
natCmp(a, b) ==
  IF Len(a) > Len(b) THEN 1
  ELSE IF Len(a) < Len(b) THEN -1
  ELSE natCmpFrom(a, b, Len(a))

RECURSIVE natMulCarry(_, _, _)
natMulCarry(a, k, carry) ==
  IF a = <<>> THEN natOfInt(carry)
  ELSE LET p == Head(a) * k + carry
       IN  <<p % LimbBase>> \o natMulCarry(Tail(a), k, p \div LimbBase)

\* a * k for one digit k
natMulDigit(a, k) == IF k = 0 THEN <<>> ELSE natMulCarry(a, k, 0)

RECURSIVE natMul(_, _)
natMul(a, b) ==
  IF b = <<>> THEN <<>>
  ELSE LET rest == natMul(a, Tail(b))
       IN  natAdd(natMulDigit(a, Head(b)), IF rest = <<>> THEN <<>> ELSE <<0>> \o rest)

\* a * 2^s
natShl(a, s) ==
  IF a = <<>> \/ s = 0 THEN a
  ELSE [ i \in 1..(s \div LimbBits) |-> 0 ] \o natMulDigit(a, 2^(s % LimbBits))

\* floor(a / 2^s)
natShr(a, s) ==
  LET q == s \div LimbBits
      r == s % LimbBits
      b == SubSeq(a, q + 1, Len(a))
  IN  natNorm([ i \in 1..Len(b) |->
                  (b[i] \div 2^r)
                    + (IF i < Len(b) THEN (b[i + 1] % 2^r) * 2^(LimbBits - r) ELSE 0) ])

\* a mod 2^s
natLow(a, s) ==
  LET q == s \div LimbBits
      r == s % LimbBits
      n == IF Len(a) <= q THEN Len(a) ELSE q + 1
  IN  natNorm([ i \in 1..n |-> IF i <= q THEN a[i] ELSE a[i] % 2^r ])

RECURSIVE intBitLen(_)
intBitLen(x) == IF x = 0 THEN 0 ELSE 1 + intBitLen(x \div 2)

-----------------------------------------------------------------------------
(* JavaScript numbers (IEEE 754 binary64, rounding to nearest, ties to even): *)
(* NaN, an infinity, or sign * mant * 2^exp with mant below 2^53; 0 has the  *)
(* empty mant.  One number may be written with several pairs of mant and     *)
(* exp, so numbers are compared with numEqual and numGreater.  The numbers   *)
(* of the planner are far from the ends of the exponent range, which is left *)
(* unbounded.                                                                *)

SignificandBits == 53

NaN == [ kind |-> "NaN", sign |-> 1, mant |-> <<>>, exp |-> 0 ]

Infinity(sign) == [ kind |-> "Infinity", sign |-> sign, mant |-> <<>>, exp |-> 0 ]

Zero == [ kind |-> "finite", sign |-> 1, mant |-> <<>>, exp |-> 0 ]

\* sign * mant * 2^exp for mant below 2^53
Finite(sign, mant, exp) ==
  IF mant = <<>> THEN Zero
  ELSE [ kind |-> "finite", sign |-> sign, mant |-> mant, exp |-> exp ]

\* The last step of a rounding: q is the significand cut to 53 binary digits,
\* cmp tells whether the digits cut off are above (1), at (0) or below (-1) half
\* a unit of q, sticky whether something nonzero lies below them.
roundQuotient(sign, q, cmp, e, sticky) ==
  Finite(sign,
         IF cmp > 0 \/ (cmp = 0 /\ (sticky \/ (q # <<>> /\ Head(q) % 2 = 1)))
         THEN natAdd(q, <<1>>) ELSE q,
         e)

\* Rounds sign * m * 2^e by cutting the s low binary digits of m.
roundShifted(sign, m, e, sticky, s) ==
  IF s <= 0 THEN Finite(sign, m, e)
  ELSE roundQuotient(sign, natShr(m, s), natCmp(natLow(m, s), natShl(<<1>>, s - 1)),
                     e + s, sticky)

\* The binary digits to append to a significand of len digits so that the
\* rounding sees two digits below the last one kept.
roundingPad(len, sticky) ==
  IF sticky /\ len < SignificandBits + 2 THEN SignificandBits + 2 - len ELSE 0

roundPadded(sign, n, e, sticky, len) ==
  roundShifted(sign, natShl(n, roundingPad(len, sticky)), e - roundingPad(len, sticky),
               sticky, len + roundingPad(len, sticky) - SignificandBits)

\* The number nearest to sign * (n + f) * 2^e, where 0 <= f < 1 with f > 0
\* exactly when sticky; of two nearest numbers the one with the even
\* significand.
roundToNumber(sign, n, e, sticky) ==
  IF ~sticky /\ LimbBits * Len(n) <= SignificandBits THEN Finite(sign, n, e)
  ELSE roundPadded(sign, n, e, sticky,
                   IF n = <<>> THEN 0 ELSE LimbBits * (Len(n) - 1) + intBitLen(n[Len(n)]))

\* An integer as a number
Number(i) == IF i < 0 THEN Finite(-1, natOfInt(-i), 0) ELSE Finite(1, natOfInt(i), 0)

\* The next bits binary digits of r / c after the point, appended below the
\* digits d found so far, and the remainder left; r < c.  A digit is 1 exactly
\* when 2 * r >= c, tested as r >= c - r to stay within the integers.
RECURSIVE divideBits(_, _, _, _)
divideBits(d, r, c, bits) ==
  IF bits = 0 THEN [ digit |-> d, rem |-> r ]
  ELSE IF r >= c - r THEN divideBits(2 * d + 1, r - (c - r), c, bits - 1)
  ELSE divideBits(2 * d, r + r, c, bits - 1)

\* The digits of r / c after the point, at most FractionLimbs of them, appended
\* below the digits q found so far; r < c.  A quotient of two integers below
\* 2^31 in size is at least 2^-31, so that 90 binary digits after the point
\* hold its 53 leading digits and the two the rounding looks at.
FractionLimbs == 6

RECURSIVE divideFrom(_, _, _, _)
divideFrom(q, r, c, limbs) ==
  IF r = 0 \/ limbs = FractionLimbs THEN [ n |-> natNorm(q), limbs |-> limbs, rem |-> r ]
  ELSE divideFrom(<<divideBits(0, r, c, LimbBits).digit>> \o q,
                  divideBits(0, r, c, LimbBits).rem, c, limbs + 1)

Abs(i) == IF i < 0 THEN -i ELSE i

roundDivision(sign, d) == roundToNumber(sign, d.n, -(LimbBits * d.limbs), d.rem # 0)

\* a / c for integers a and c
numDivide(a, c) ==
  IF c = 0 THEN (IF a = 0 THEN NaN ELSE Infinity(IF a > 0 THEN 1 ELSE -1))
  ELSE IF a = 0 THEN Zero
  ELSE roundDivision(IF (a > 0) = (c > 0) THEN 1 ELSE -1,
                     divideFrom(natOfInt(Abs(a) \div Abs(c)), Abs(a) % Abs(c), Abs(c), 0))

\* sx * a * 2^e + sy * b * 2^e, where cmp compares a with b
addAligned(sx, a, sy, b, e, cmp) ==
  roundToNumber(IF cmp >= 0 THEN sx ELSE sy,
                IF sx = sy THEN natAdd(a, b)
                ELSE IF cmp > 0 THEN natSub(a, b)
                ELSE IF cmp < 0 THEN natSub(b, a)
                ELSE <<>>,
                e, FALSE)

addFinite(x, y, e) ==
  addAligned(x.sign, natShl(x.mant, x.exp - e), y.sign, natShl(y.mant, y.exp - e), e,
             natCmp(natShl(x.mant, x.exp - e), natShl(y.mant, y.exp - e)))

\* x + y
numAdd(x, y) ==
  IF x.kind = "NaN" \/ y.kind = "NaN" THEN NaN
  ELSE IF x.kind = "Infinity"
       THEN (IF y.kind = "Infinity" /\ y.sign # x.sign THEN NaN ELSE x)
  ELSE IF y.kind = "Infinity" THEN y
  ELSE IF x.mant = <<>> THEN y
  ELSE IF y.mant = <<>> THEN x
  ELSE addFinite(x, y, Min(x.exp, y.exp))

\* x - y
numSubtract(x, y) ==
  numAdd(x, IF y.kind = "NaN" \/ (y.kind = "finite" /\ y.mant = <<>>) THEN y
            ELSE [ y EXCEPT !.sign = -@ ])

\* x * y
numMultiply(x, y) ==
  IF x.kind = "NaN" \/ y.kind = "NaN" THEN NaN
  ELSE IF x.kind = "Infinity" \/ y.kind = "Infinity"
       THEN (IF (x.kind = "finite" /\ x.mant = <<>>) \/ (y.kind = "finite" /\ y.mant = <<>>)
             THEN NaN ELSE Infinity(x.sign * y.sign))
  ELSE IF x.mant = <<>> \/ y.mant = <<>> THEN Zero
  ELSE roundToNumber(x.sign * y.sign, natMul(x.mant, y.mant), x.exp + y.exp, FALSE)

\* 1, 0 or -1 as a finite x is above, equal to or below 0
signOf(x) == IF x.mant = <<>> THEN 0 ELSE x.sign

cmpFinite(x, y, e) ==
  IF signOf(x) # signOf(y) THEN (IF signOf(x) > signOf(y) THEN 1 ELSE -1)
  ELSE IF signOf(x) = 0 THEN 0
  ELSE signOf(x) * natCmp(natShl(x.mant, x.exp - e), natShl(y.mant, y.exp - e))

\* 1, 0 or -1 as x is above, equal to or below y; neither is NaN
numCmp(x, y) ==
  IF x.kind = "Infinity"
  THEN (IF y.kind = "Infinity" /\ y.sign = x.sign THEN 0 ELSE x.sign)
  ELSE IF y.kind = "Infinity" THEN -y.sign
  ELSE cmpFinite(x, y, Min(x.exp, y.exp))

\* x > y
numGreater(x, y) ==
  IF x.kind = "NaN" \/ y.kind = "NaN" THEN FALSE ELSE numCmp(x, y) > 0

\* x >= y
numGreaterOrEqual(x, y) ==
  IF x.kind = "NaN" \/ y.kind = "NaN" THEN FALSE ELSE numCmp(x, y) >= 0

\* x === y
numEqual(x, y) ==
  IF x.kind = "NaN" \/ y.kind = "NaN" THEN FALSE ELSE numCmp(x, y) = 0

-----------------------------------------------------------------------------
(* Program constants *)

MAX_WEEKS == 12
PRIORITY_THRESHOLD_HIGH == 80

\* The outcome of a call: the value it returns, or the TypeError it throws.
Return(v) == [ threw |-> FALSE, value |-> v ]
ThrowTypeError == [ threw |-> TRUE, value |-> <<>> ]

\* The own properties of the object literal roleCompatibility
synonymsOf(key) ==
  CASE key = <<"d","e","v","e","l","o","p","e","r">> ->
         << <<"d","e","v","e","l","o","p","e","r">>,
            <<"f","u","l","l"," ","s","t","a","c","k"," ","d","e","v","e","l","o","p","e","r">>,
            <<"b","a","c","k","e","n","d"," ","d","e","v","e","l","o","p","e","r">>,
            <<"f","r","o","n","t","e","n","d"," ","d","e","v","e","l","o","p","e","r">>,
            <<"s","o","f","t","w","a","r","e"," ","e","n","g","i","n","e","e","r">>,
            <<"e","n","g","i","n","e","e","r">> >>
    [] key = <<"d","e","s","i","g","n","e","r">> ->
         << <<"d","e","s","i","g","n","e","r">>,
            <<"u","i"," ","d","e","s","i","g","n","e","r">>,
            <<"u","x"," ","d","e","s","i","g","n","e","r">>,
            <<"g","r","a","p","h","i","c"," ","d","e","s","i","g","n","e","r">>,
            <<"v","i","s","u","a","l"," ","d","e","s","i","g","n","e","r">> >>
    [] key = <<"m","a","n","a","g","e","r">> ->
         << <<"m","a","n","a","g","e","r">>,
            <<"p","r","o","j","e","c","t"," ","m","a","n","a","g","e","r">>,
            <<"t","e","a","m"," ","l","e","a","d">>,
            <<"l","e","a","d">>,
            <<"c","o","o","r","d","i","n","a","t","o","r">> >>
    [] key = <<"c","o","p","y","w","r","i","t","e","r">> ->
         << <<"c","o","p","y","w","r","i","t","e","r">>,
            <<"c","o","n","t","e","n","t"," ","w","r","i","t","e","r">>,
            <<"m","a","r","k","e","t","i","n","g"," ","s","p","e","c","i","a","l","i","s","t">>,
            <<"w","r","i","t","e","r">> >>
    [] OTHER -> <<>>

\* roleCompatibility[key] || []: the array of synonyms, the empty array for an
\* unknown key, and for a key the object literal inherits from Object.prototype
\* a function or an object, which is not an array.
roleCompatibility(key) ==
  IF key \in
      { <<"c","o","n","s","t","r","u","c","t","o","r">>,
        <<"_","_","p","r","o","t","o","_","_">>,
        <<"_","_","d","e","f","i","n","e","G","e","t","t","e","r","_","_">>,
        <<"_","_","d","e","f","i","n","e","S","e","t","t","e","r","_","_">>,
        <<"_","_","l","o","o","k","u","p","G","e","t","t","e","r","_","_">>,
        <<"_","_","l","o","o","k","u","p","S","e","t","t","e","r","_","_">>,
        <<"h","a","s","O","w","n","P","r","o","p","e","r","t","y">>,
        <<"i","s","P","r","o","t","o","t","y","p","e","O","f">>,
        <<"p","r","o","p","e","r","t","y","I","s","E","n","u","m","e","r","a","b","l","e">>,
        <<"t","o","S","t","r","i","n","g">>,
        <<"v","a","l","u","e","O","f">>,
        <<"t","o","L","o","c","a","l","e","S","t","r","i","n","g">> }
  THEN [ isArray |-> FALSE, roles |-> <<>> ]
  ELSE [ isArray |-> TRUE, roles |-> synonymsOf(key) ]

\* isRoleCompatible that looks the resource role up in the synonyms of every
\* canonical role instead of those of the required role.
isRoleCompatible_AnySynonym(requiredRole, resourceRole) ==
  LET requiredRoleLower == toLowerCase(requiredRole)
      resourceRoleLower == toLowerCase(resourceRole)
      compatibleRoles   == synonymsOf(<<"d","e","v","e","l","o","p","e","r">>) \o synonymsOf(sDesigner)
                             \o synonymsOf(sManager)
                             \o synonymsOf(<<"c","o","p","y","w","r","i","t","e","r">>)
  IN  IF requiredRoleLower = resourceRoleLower THEN Return(TRUE)
      ELSE IF \E k \in 1..Len(compatibleRoles) :
                 \/ includes(resourceRoleLower, compatibleRoles[k])
                 \/ includes(compatibleRoles[k], resourceRoleLower) THEN Return(TRUE)
      ELSE IF resourceRoleLower = toLowerCase(sOther) \/ resourceRoleLower = toLowerCase(sGeneral)
           THEN Return(TRUE)
      ELSE IF requiredRole = <<>> \/ trim(requiredRole) = <<>> \/ requiredRoleLower = sAny
           THEN Return(TRUE)
      ELSE Return(FALSE)

\* SmartScheduler.isRoleCompatible.  compatibleRoles.some(...) throws a TypeError
\* when compatibleRoles is not an array.
isRoleCompatible(requiredRole, resourceRole) ==
  LET requiredRoleLower == toLowerCase(requiredRole)
      resourceRoleLower == toLowerCase(resourceRole)
      compatibleRoles   == roleCompatibility(requiredRoleLower)
  IN  IF requiredRoleLower = resourceRoleLower THEN Return(TRUE)
      ELSE IF ~compatibleRoles.isArray THEN ThrowTypeError
      ELSE IF \E k \in 1..Len(compatibleRoles.roles) :
                 \/ includes(resourceRoleLower, compatibleRoles.roles[k])
                 \/ includes(compatibleRoles.roles[k], resourceRoleLower) THEN Return(TRUE)
      ELSE IF resourceRoleLower = toLowerCase(sOther) \/ resourceRoleLower = toLowerCase(sGeneral)
           THEN Return(TRUE)
      ELSE IF requiredRole = <<>> \/ trim(requiredRole) = <<>> \/ requiredRoleLower = sAny
           THEN Return(TRUE)
      ELSE Return(FALSE)

-----------------------------------------------------------------------------
(* Planner: pure parts *)

\* The sort with the comparator (a, b) => a.priority - b.priority: ascending.
RECURSIVE insertByPriority_Ascending(_, _)
insertByPriority_Ascending(sorted, t) ==
  IF sorted = <<>> THEN <<t>>
  ELSE IF numGreaterOrEqual(t.priority, Head(sorted).priority)
       THEN <<Head(sorted)>> \o insertByPriority_Ascending(Tail(sorted), t)
       ELSE <<t>> \o sorted

\* The comparator (a, b) => b.priority - a.priority as Array.prototype.sort
\* reads it: below, at or above 0, a NaN result counting as +0.
sortCompare(a, b) ==
  LET v == numSubtract(b.priority, a.priority)
  IN  IF v.kind = "NaN" THEN 0
      ELSE IF v.kind = "finite" /\ v.mant = <<>> THEN 0
      ELSE v.sign

\* Array.prototype.sort((a, b) => b.priority - a.priority), the insertion of
\* t into the sorted front of the array: a binary search between left and
\* right (counted from 0) that goes left where the comparator is below 0.
RECURSIVE insertByPriority(_, _, _, _)
insertByPriority(sorted, t, left, right) ==
  IF left < right
  THEN IF sortCompare(t, sorted[left + (right - left) \div 2 + 1]) < 0
       THEN insertByPriority(sorted, t, left, left + (right - left) \div 2)
       ELSE insertByPriority(sorted, t, left + (right - left) \div 2 + 1, right)
  ELSE SubSeq(sorted, 1, left) \o <<t>> \o SubSeq(sorted, left + 1, Len(sorted))

\* One insertion of the sort under the comparator of the call.
insertInOrder(sorted, t) == insertByPriority(sorted, t, 0, Len(sorted))

\* Array.prototype.sort((a, b) => b.priority - a.priority) on an array of
\* fewer than 64 elements: the run the array begins with is kept, reversed
\* when the comparator is below 0 all along it, and the elements after it
\* are inserted one by one. Stable and descending whenever no difference of
\* two priorities is NaN.
RECURSIVE sortByPriorityDesc(_)
sortByPriorityDesc(s) ==
  IF Len(s) < 2 THEN s
  ELSE LET descending == sortCompare(s[2], s[1]) < 0
           inRun(i) == (sortCompare(s[i], s[i - 1]) < 0) = descending
       IN  IF \A i \in 3..Len(s) : inRun(i)
           THEN (IF descending THEN [ i \in 1..Len(s) |-> s[Len(s) + 1 - i] ] ELSE s)
           ELSE insertInOrder(sortByPriorityDesc(SubSeq(s, 1, Len(s) - 1)), s[Len(s)])

\* initSchedule that ignores currentlyAssignedHours.
initSchedule_NoSeed(resource) ==
  [ resourceId     |-> resource.id,
    role           |-> resource.role,
    weeklyCapacity |-> resource.weeklyHours,
    weeks          |-> [ w \in 1..MAX_WEEKS |->
        [ weekNumber     |-> w,
          assignedHours  |-> 0,
          availableHours |-> resource.weeklyHours,
          tasks          |-> <<>> ] ] ]

\* initSchedule giving every week 40 available hours whatever the capacity
initSchedule_StandardWeek(resource) ==
  [ resourceId     |-> resource.id,
    role           |-> resource.role,
    weeklyCapacity |-> resource.weeklyHours,
    weeks          |-> [ w \in 1..MAX_WEEKS |->
        [ weekNumber     |-> w,
          assignedHours  |-> IF w = 1 THEN OrZero(resource.currentlyAssignedHours) ELSE 0,
          availableHours |-> 40,
          tasks          |-> <<>> ] ] ]

\* resources.map(resource => ({ ... weeks: Array.from({length: MAX_WEEKS}, ...) }))
initSchedule(resource) ==
  [ resourceId     |-> resource.id,
    role           |-> resource.role,
    weeklyCapacity |-> resource.weeklyHours,
    weeks          |-> [ w \in 1..MAX_WEEKS |->
        [ weekNumber     |-> w,
          assignedHours  |-> IF w = 1 THEN OrZero(resource.currentlyAssignedHours) ELSE 0,
          availableHours |-> resource.weeklyHours
                               - (IF w = 1 THEN OrZero(resource.currentlyAssignedHours) ELSE 0),
          tasks          |-> <<>> ] ] ]

initSchedules(rs) == [ i \in 1..Len(rs) |-> initSchedule(rs[i]) ]

\* `if (task.priority >= PRIORITY_THRESHOLD_HIGH && weekNumber === 1) score += 50`
withUrgentBonus(task, weekNumber, score) ==
  IF numGreaterOrEqual(task.priority, Number(PRIORITY_THRESHOLD_HIGH)) /\ weekNumber = 1
  THEN numAdd(score, Number(50))
  ELSE score

\* schedule.weeks[weekNumber - 1].assignedHours / schedule.weeklyCapacity
weekUtilization(schedule, weekNumber) ==
  numDivide(schedule.weeks[weekNumber].assignedHours, schedule.weeklyCapacity)

\* calculateAssignmentScore without the bonus of an urgent task in week 1
calculateAssignmentScore_NoUrgentBonus(task, schedule, weekNumber) ==
  numAdd(numAdd(numAdd(Number(0), task.priority),
                Number((MAX_WEEKS - weekNumber) * 10)),
         numMultiply(numSubtract(Number(1), weekUtilization(schedule, weekNumber)),
                     Number(20)))

\* SmartScheduler.calculateAssignmentScore: score = 0, then its += statements
\* in their order, in JavaScript number arithmetic
calculateAssignmentScore(task, schedule, weekNumber) ==
  withUrgentBonus(task, weekNumber,
    numAdd(numAdd(numAdd(Number(0), task.priority),
                  Number((MAX_WEEKS - weekNumber) * 10)),
           numMultiply(numSubtract(Number(1), weekUtilization(schedule, weekNumber)),
                       Number(20))))

\* SmartScheduler.generateAssignmentReason
generateAssignmentReason(task, schedule, weekNumber, isOverflow) ==
  IF weekNumber = 1
  THEN IF numGreaterOrEqual(task.priority, Number(PRIORITY_THRESHOLD_HIGH))
       THEN <<"High priority task scheduled immediately">>
       ELSE <<"Available capacity this week">>
  ELSE <<"Week", weekNumber, "- Scheduled based on capacity and priority">>

\* firstFitWeek with the fit test `week.availableHours > 0` (the projector's test).
firstFitWeek_AnyRoom(task, schedule) ==
  LET fits == { w \in 1..Len(schedule.weeks) : schedule.weeks[w].availableHours > 0 }
  IN  IF fits = {} THEN 0 ELSE CHOOSE w \in fits : \A v \in fits : w <= v

\* firstFitWeek without the `break`: the last week that fits.
firstFitWeek_LastFit(task, schedule) ==
  LET fits == { w \in 1..Len(schedule.weeks) :
                  schedule.weeks[w].availableHours >= Val(task.estimatedHours) }
  IN  IF fits = {} THEN 0 ELSE CHOOSE w \in fits : \A v \in fits : w >= v

\* The inner loop of findBestAssignment: the first week that fits, 0 if none.
firstFitWeek(task, schedule) ==
  LET fits == { w \in 1..Len(schedule.weeks) :
                  schedule.weeks[w].availableHours >= Val(task.estimatedHours) }
  IN  IF fits = {} THEN 0 ELSE CHOOSE w \in fits : \A v \in fits : w <= v

\* The role gate of findBestAssignment; requiredRole undefined or '' is falsy.
\* isRoleCompatible is called first, whatever the required role.
roleGateRejects(task, schedule) ==
  LET isCompatible == isRoleCompatible(task.requiredRole, schedule.role)
  IN  IF isCompatible.threw THEN ThrowTypeError
      ELSE Return(task.requiredRole # <<>> /\ ~isCompatible.value)

\* The replacement test `score > bestScore`
beatsBest(score, bestScore) == numGreater(score, bestScore)

\* The outer loop of findBestAssignment from schedule i on: the assignment
\* returned, or the TypeError of the role gate.
RECURSIVE findBestFrom(_, _, _, _, _)

\* Lines 209-221: the score of the first week that fits is compared.
afterScore(task, scheds, i, bestAssignment, bestScore, weekNumber, score) ==
  IF beatsBest(score, bestScore)
  THEN findBestFrom(task, scheds, i + 1,
         Some([ taskId        |-> task.id,
                resourceId    |-> scheds[i].resourceId,
                scheduledWeek |-> weekNumber,
                reason        |-> generateAssignmentReason(task, scheds[i], weekNumber, FALSE),
                isOverflow    |-> FALSE ]),
         score)
  ELSE findBestFrom(task, scheds, i + 1, bestAssignment, bestScore)

\* Lines 202-230: weekNumber is the first week that fits, 0 if there is none.
afterWeekScan(task, scheds, i, bestAssignment, bestScore, weekNumber) ==
  IF weekNumber = 0
  THEN findBestFrom(task, scheds, i + 1, bestAssignment, bestScore)
  ELSE afterScore(task, scheds, i, bestAssignment, bestScore, weekNumber,
                  calculateAssignmentScore(task, scheds[i], weekNumber))

\* Lines 195-199: rejects is the outcome of the role gate.
afterRoleGate(task, scheds, i, bestAssignment, bestScore, rejects) ==
  IF rejects.threw THEN ThrowTypeError
  ELSE IF rejects.value
  THEN findBestFrom(task, scheds, i + 1, bestAssignment, bestScore)
  ELSE afterWeekScan(task, scheds, i, bestAssignment, bestScore,
                     firstFitWeek(task, scheds[i]))

findBestFrom(task, scheds, i, bestAssignment, bestScore) ==
  IF i > Len(scheds) THEN Return(bestAssignment)
  ELSE afterRoleGate(task, scheds, i, bestAssignment, bestScore,
                     roleGateRejects(task, scheds[i]))

\* SmartScheduler.findBestAssignment: Return(Null), Return(Some(assignment)) or
\* the TypeError
findBestAssignment(task, scheds) == findBestFrom(task, scheds, 1, Null, Number(-1))

\* skipsTask with the test `!task.estimatedHours` alone.
skipsTask_FalsyOnly(task) == ~NumTruthy(task.estimatedHours)

\* The skip test of the main loop: !task.estimatedHours || task.estimatedHours <= 0
skipsTask(task) ==
  IF ~NumTruthy(task.estimatedHours) THEN TRUE ELSE Val(task.estimatedHours) <= 0

\* isImmediate with the test `scheduledWeek <= 2`.
isImmediate_UpToWeek2(assignment) == assignment.scheduledWeek <= 2

\* The test `assignment.scheduledWeek === 1` that picks the counter to increment.
isImmediate(assignment) == assignment.scheduledWeek = 1

\* schedules.find(s => s.resourceId === assignment.resourceId)
findScheduleIndex(scheds, resourceId) ==
  CHOOSE i \in 1..Len(scheds) :
    /\ scheds[i].resourceId = resourceId
    /\ \A j \in 1..(i - 1) : scheds[j].resourceId # resourceId

\* commitToWeek leaving availableHours as it was
commitToWeek_AssignedOnly(week, task) ==
  [ week EXCEPT
      !.assignedHours  = @ + Val(task.estimatedHours),
      !.tasks          = Append(@, [ taskId   |-> task.id,
                                     hours    |-> Val(task.estimatedHours),
                                     priority |-> task.priority ]) ]

\* The update of the chosen bucket (week.assignedHours += ..., week.tasks.push)
commitToWeek(week, task) ==
  [ week EXCEPT
      !.assignedHours  = @ + Val(task.estimatedHours),
      !.availableHours = @ - Val(task.estimatedHours),
      !.tasks          = Append(@, [ taskId   |-> task.id,
                                     hours    |-> Val(task.estimatedHours),
                                     priority |-> task.priority ]) ]

commitAssignment(scheds, assignment, task) ==
  LET s == findScheduleIndex(scheds, assignment.resourceId)
      w == assignment.scheduledWeek
  IN  [ scheds EXCEPT ![s].weeks[w] = commitToWeek(@, task) ]

-----------------------------------------------------------------------------
(* Planner: the call, one step per loop iteration *)

\* Lines 99-118: build the ledgers, sort the caller's array in place.
BeginAssign ==
  /\ UNCHANGED projVars
  /\ pc = "start"
  /\ schedules' = initSchedules(resources)
  /\ tasks' = sortByPriorityDesc(tasks)
  /\ sortedTasks' = sortByPriorityDesc(tasks)
  /\ idx' = 1
  /\ assignments' = <<>>
  /\ immediateAssignments' = 0
  /\ deferredAssignments' = 0
  /\ overflowTasks' = 0
  /\ pc' = "loop"
  /\ UNCHANGED <<resources, preview, schedulingSummary>>

\* Lines 120-126: a task without positive hours is skipped and counted as overflow.
SkipTask ==
  /\ UNCHANGED projVars
  /\ pc = "loop"
  /\ idx <= Len(sortedTasks)
  /\ skipsTask(sortedTasks[idx])
  /\ overflowTasks' = overflowTasks + 1
  /\ idx' = idx + 1
  /\ UNCHANGED <<pc, tasks, resources, schedules, sortedTasks, assignments,
                 immediateAssignments, deferredAssignments, preview, schedulingSummary>>

\* Lines 129-157: an assignment was found and is committed.
CommitTask ==
  /\ UNCHANGED projVars
  /\ pc = "loop"
  /\ idx <= Len(sortedTasks)
  /\ ~skipsTask(sortedTasks[idx])
  /\ LET task == sortedTasks[idx]
         call == findBestAssignment(task, schedules)
         found == call.value
     IN  /\ ~call.threw
         /\ ~IsNull(found)
         /\ assignments' = Append(assignments, Val(found))
         /\ schedules' = commitAssignment(schedules, Val(found), task)
         /\ IF isImmediate(Val(found))
            THEN /\ immediateAssignments' = immediateAssignments + 1
                 /\ UNCHANGED deferredAssignments
            ELSE /\ deferredAssignments' = deferredAssignments + 1
                 /\ UNCHANGED immediateAssignments
  /\ idx' = idx + 1
  /\ UNCHANGED <<pc, tasks, resources, sortedTasks, overflowTasks, preview, schedulingSummary>>

\* Lines 158-161: no assignment was found.
OverflowTask ==
  /\ UNCHANGED projVars
  /\ pc = "loop"
  /\ idx <= Len(sortedTasks)
  /\ ~skipsTask(sortedTasks[idx])
  /\ LET call == findBestAssignment(sortedTasks[idx], schedules)
     IN  ~call.threw /\ IsNull(call.value)
  /\ overflowTasks' = overflowTasks + 1
  /\ idx' = idx + 1
  /\ UNCHANGED <<pc, tasks, resources, schedules, sortedTasks, assignments,
                 immediateAssignments, deferredAssignments, preview, schedulingSummary>>

\* Line 129: findBestAssignment throws; nothing catches the TypeError, the call
\* ends without a preview.
AssignThrows ==
  /\ UNCHANGED projVars
  /\ pc = "loop"
  /\ idx <= Len(sortedTasks)
  /\ ~skipsTask(sortedTasks[idx])
  /\ findBestAssignment(sortedTasks[idx], schedules).threw
  /\ pc' = "threw"
  /\ UNCHANGED <<tasks, resources, schedules, sortedTasks, idx, assignments,
                 immediateAssignments, deferredAssignments, overflowTasks, preview,
                 schedulingSummary>>

\* Lines 164-182: the preview is built and returned.
ReturnPreview ==
  /\ UNCHANGED projVars
  /\ pc = "loop"
  /\ idx > Len(sortedTasks)
  /\ preview' = Some([ assignments |-> assignments,
                       schedules   |-> schedules,
                       summary     |-> [ totalTasks           |-> Len(tasks),
                                         immediateAssignments |-> immediateAssignments,
                                         deferredAssignments  |-> deferredAssignments,
                                         overflowTasks        |-> overflowTasks ] ])
  /\ pc' = "done"
  /\ UNCHANGED <<tasks, resources, schedules, sortedTasks, idx, assignments,
                 immediateAssignments, deferredAssignments, overflowTasks, schedulingSummary>>

PlannerNext ==
  \/ BeginAssign
  \/ SkipTask
  \/ CommitTask
  \/ OverflowTask
  \/ AssignThrows
  \/ ReturnPreview

-----------------------------------------------------------------------------
(* Planner: getSchedulingSummary *)

\* A template literal: its text with numbered holes and the values filling them.
Text(template, args) == [ template |-> template, args |-> args ]

\* isOverUtilized with >= in place of >
isOverUtilized_AtThreshold(schedule) ==
  10 * schedule.weeks[1].assignedHours >= 9 * schedule.weeklyCapacity

\* schedule.weeks[0].assignedHours > schedule.weeklyCapacity * 0.9
isOverUtilized(schedule) ==
  10 * schedule.weeks[1].assignedHours > 9 * schedule.weeklyCapacity

\* schedules.filter(...).length
RECURSIVE countOverUtilized(_)
countOverUtilized(scheds) ==
  IF scheds = <<>> THEN 0
  ELSE (IF isOverUtilized(Head(scheds)) THEN 1 ELSE 0) + countOverUtilized(Tail(scheds))

\* SmartScheduler.getSchedulingSummary
getSchedulingSummary(p) ==
  LET summary == p.summary
      overflow == summary.overflowTasks > 0
      title == IF overflow THEN "Some Tasks Unscheduled" ELSE "Assignment Complete"
      description ==
        IF overflow
        THEN Text("{1} tasks start this week, {2} tasks scheduled for future weeks. {3} tasks could not be scheduled within the planning horizon.",
                  <<summary.immediateAssignments, summary.deferredAssignments, summary.overflowTasks>>)
        ELSE Text("All {1} tasks successfully scheduled. {2} this week, {3} in upcoming weeks.",
                  <<summary.totalTasks, summary.immediateAssignments, summary.deferredAssignments>>)
      forOverflow ==
        IF overflow
        THEN << Text("Consider increasing team capacity for unscheduled tasks", <<>>),
                Text("Extend planning horizon beyond 12 weeks", <<>>),
                Text("Split large tasks into smaller chunks", <<>>) >>
        ELSE <<>>
      overUtilized == countOverUtilized(p.schedules)
      forCapacity ==
        IF overUtilized > 0
        THEN << Text("{1} team member(s) near capacity limit", <<overUtilized>>) >>
        ELSE <<>>
  IN  [ title |-> title, description |-> description, suggestions |-> forOverflow \o forCapacity ]

\* The caller asks for the summary of the preview it was returned.
GetSummary ==
  /\ UNCHANGED projVars
  /\ pc = "done"
  /\ IsNull(schedulingSummary)
  /\ schedulingSummary' = Some(getSchedulingSummary(Val(preview)))
  /\ UNCHANGED <<pc, tasks, resources, schedules, sortedTasks, idx, assignments,
                 immediateAssignments, deferredAssignments, overflowTasks, preview>>

SummaryNext ==
  \/ PlannerNext
  \/ GetSummary

-----------------------------------------------------------------------------
(* Planner: inputs *)

MaxTasks == 3
MaxResources == 2

\* Lists of at most n elements of S, in every order.
RECURSIVE SeqsUpTo(_, _)
SeqsUpTo(S, n) ==
  IF n = 0 THEN { <<>> }
  ELSE LET shorter == SeqsUpTo(S, n - 1)
       IN  shorter \cup { Append(s, x) : s \in { t \in shorter : Len(t) = n - 1 }, x \in S }

withIds(s) == [ i \in 1..Len(s) |-> [ id |-> i ] @@ s[i] ]

Task(p, h, r) == [ priority |-> Number(p), estimatedHours |-> h, requiredRole |-> r ]
Resource(r, c, a) == [ role |-> r, weeklyHours |-> c, currentlyAssignedHours |-> a ]

\* Tasks on both sides of PRIORITY_THRESHOLD_HIGH, with hours that fit together
\* in a 40h or 20h week (10) and hours that do not (35), one task without
\* hours, one task that requires a role and one whose required role is the
\* name of a property that the object literal roleCompatibility inherits.
TaskKinds ==
  { Task(90, Some(10), sEmpty), Task(50, Some(10), sEmpty), Task(50, Some(35), sEmpty),
    Task(50, Some(0), sEmpty), Task(50, Some(10), sDesigner),
    Task(50, Some(10), <<"c","o","n","s","t","r","u","c","t","o","r">>) }

\* Resources with committed hours absent, below the capacity, equal to it and
\* above it, of two capacities; a designer task rejects the uncommitted one.
ResourceKinds ==
  { Resource(sManagerC, 40, Null), Resource(sUIDesigner, 40, Some(20)),
    Resource(sUIDesigner, 20, Some(20)), Resource(sUIDesigner, 40, Some(45)) }

\* The projector is not called.
ProjectorIdle ==
  /\ projPc = "idle"
  /\ projTasks = <<>>
  /\ currentDate = 0
  /\ resourceSchedules = <<>>
  /\ taskTimelines = <<>>
  /\ projSorted = <<>>
  /\ projIdx = 0
  /\ projResult = Null
  /\ projCalls = 0
  /\ projPrevious = Null

\* assignTasksWithBandwidth is called on lists of the given tasks and resources.
PlannerCalledWith(taskKinds, resourceKinds) ==
  /\ pc = "start"
  /\ tasks \in { withIds(s) : s \in SeqsUpTo(taskKinds, MaxTasks) }
  /\ resources \in { withIds(s) : s \in SeqsUpTo(resourceKinds, MaxResources) }
  /\ schedules = <<>>
  /\ sortedTasks = <<>>
  /\ idx = 0
  /\ assignments = <<>>
  /\ immediateAssignments = 0
  /\ deferredAssignments = 0
  /\ overflowTasks = 0
  /\ preview = Null
  /\ schedulingSummary = Null

PlannerInitWith(taskKinds, resourceKinds) ==
  /\ PlannerCalledWith(taskKinds, resourceKinds)
  /\ ProjectorIdle

Init == PlannerInitWith(TaskKinds, ResourceKinds)

Next == PlannerNext

Spec == Init /\ [][Next]_vars

\* The planner on tasks of negative priority as well.
AnyPriorityInit ==
  PlannerInitWith(
    { Task(-200, Some(10), sEmpty), Task(-200, Some(10), sDesigner),
      Task(50, Some(35), sEmpty), Task(50, Some(0), sEmpty),
      Task(-200, Some(10), <<"c","o","n","s","t","r","u","c","t","o","r">>) },
    ResourceKinds)

AnyPrioritySpec == AnyPriorityInit /\ [][Next]_vars

\* The planner on role labels of every shape the role rule distinguishes, and
\* on a required role that is the name of an inherited property or is written
\* in Cyrillic capitals, the first of them U+1C89.
RoleTaskKinds ==
  { Task(50, Some(10), r) :
      r \in { <<"D","e","s","i","g","n","e","r">>, sManager, <<"A","N","Y">>, <<" ","\t">>,
             <<"c","o","n","s","t","r","u","c","t","o","r">>,
             <<"U+1C89","U+0418","U+0417">> } }
    \cup { Task(50, Some(0), sEmpty) }

RoleInit ==
  PlannerInitWith(
    RoleTaskKinds,
    { Resource(r, 40, Null) :
        r \in { sManagerC, sUIDesigner, <<"D","e","s","i","g","n">>, sOther, sGeneral,
                <<"U+1C8A","U+0438","U+0437">> } })

RoleSpec == RoleInit /\ [][Next]_vars

\* The planner on capacities and hours whose quotient no JavaScript number
\* equals (17/22, 6/22), next to some whose quotient is exact, on a task
\* without hours and on one whose required role is the name of an inherited
\* property.
RoundingInit ==
  PlannerInitWith(
    { Task(90, Some(6), sDesigner), Task(50, Some(5), sEmpty), Task(50, Some(10), sEmpty),
      Task(50, Some(0), sEmpty), Task(50, Some(5), <<"c","o","n","s","t","r","u","c","t","o","r">>) },
    { Resource(sManagerC, 22, Some(17)), Resource(sUIDesigner, 22, Some(22)),
      Resource(sUIDesigner, 40, Some(20)), Resource(sUIDesigner, 40, Some(45)) })

RoundingSpec == RoundingInit /\ [][Next]_vars

\* The planner on tasks whose hours are missing, zero or negative.
HourlessInit ==
  PlannerInitWith(
    { Task(50, Null, sEmpty), Task(90, Some(0), sEmpty), Task(50, Some(-5), sEmpty),
      Task(50, Some(10), sEmpty), Task(90, Some(35), sEmpty),
      Task(50, Some(10), <<"c","o","n","s","t","r","u","c","t","o","r">>) },
    ResourceKinds)

HourlessSpec == HourlessInit /\ [][Next]_vars

\* Resources for the summary: free, at exactly 90% of the capacity in week 1,
\* full, and committed beyond the capacity.
SummaryResourceKinds ==
  { Resource(sManagerC, 40, Null),
    Resource(sUIDesigner, 40, Some(36)),
    Resource(sUIDesigner, 20, Some(20)),
    Resource(sUIDesigner, 40, Some(45)) }

SummaryInit == PlannerInitWith(TaskKinds, SummaryResourceKinds)

\* Urgent tasks (priority 90) that are small, large, without hours, bound to
\* a role or to the name of an inherited property, next to an ordinary one and
\* to tasks of priority 2^52, the last at which the score keeps its units, and
\* 2^60, which absorbs every other term of the score.
UrgentTaskKinds ==
  { Task(90, Some(10), sEmpty),
    Task(90, Some(35), sEmpty),
    Task(90, Some(0), sEmpty),
    Task(90, Some(10), sDesigner),
    Task(90, Some(10), <<"_","_","p","r","o","t","o","_","_">>),
    Task(50, Some(10), sEmpty),
    [ Task(0, Some(10), sEmpty) EXCEPT !.priority = Finite(1, <<1>>, 52) ],
    [ Task(0, Some(10), sEmpty) EXCEPT !.priority = Finite(1, <<1>>, 60) ] }

UrgentInit == PlannerInitWith(UrgentTaskKinds, ResourceKinds)

UrgentSpec == UrgentInit /\ [][Next]_vars

SummarySpec == SummaryInit /\ [][SummaryNext]_vars

\* The planner on resources whose utilizations differ by less than the score
\* can tell (4/35787025 and 3/26840269), next to ordinary ones, and on tasks
\* of priority 0 and 2^60.
UtilizationInit ==
  PlannerInitWith(
    { Task(0, Some(1), sEmpty),
      [ Task(0, Some(10), sEmpty) EXCEPT !.priority = Finite(1, <<1>>, 60) ],
      Task(50, Some(0), sEmpty),
      Task(50, Some(10), <<"c","o","n","s","t","r","u","c","t","o","r">>) },
    { Resource(sUIDesigner, 35787025, Some(4)), Resource(sManagerC, 26840269, Some(3)),
      Resource(sUIDesigner, 40, Some(20)), Resource(sManagerC, 40, Null) })

UtilizationSpec == UtilizationInit /\ [][Next]_vars

-----------------------------------------------------------------------------
(* Projector: pure parts *)

WEEKS_TO_CALCULATE == 12
HOURS_PER_WEEK == 40

\* A JavaScript Map is the sequence of its entries in insertion order.
mapHas(m, k) == \E i \in 1..Len(m) : m[i].key = k
mapIndex(m, k) == CHOOSE i \in 1..Len(m) : m[i].key = k

\* A lookup that falls back on the first entry when the key is absent
mapGet_FirstWhenMissing(m, k) ==
  IF mapHas(m, k) THEN Some(m[mapIndex(m, k)].value)
  ELSE IF m # <<>> THEN Some(m[1].value) ELSE Null

\* Map.prototype.get: Null (undefined) or Some(value)
mapGet(m, k) == IF mapHas(m, k) THEN Some(m[mapIndex(m, k)].value) ELSE Null

\* Map.prototype.set: an existing key keeps its position and takes the new value
mapSet(m, k, v) ==
  IF mapHas(m, k) THEN [ m EXCEPT ![mapIndex(m, k)].value = v ]
  ELSE Append(m, [ key |-> k, value |-> v ])

\* TaskScheduler.flattenTasks: depth first, a task before its subtasks
RECURSIVE flattenTasks(_)
flattenTasks(taskList) ==
  IF taskList = <<>> THEN <<>>
  ELSE <<Head(taskList)>> \o flattenTasks(Head(taskList).subtasks) \o flattenTasks(Tail(taskList))

\* TaskScheduler.extractResources, resourceMap being the map built so far
RECURSIVE extractFromTasks(_, _)
extractFromTasks(taskList, resourceMap) ==
  IF taskList = <<>> THEN resourceMap
  ELSE LET task == Head(taskList)
           withTask ==
             IF ~IsNull(task.assignee) /\ ~IsNull(task.assignedTo)
             THEN mapSet(resourceMap, Val(task.assignedTo),
                         [ id          |-> Val(task.assignedTo),
                           name        |-> Val(task.assignee).name,
                           weeklyHours |-> Val(task.assignee).weeklyHours ])
             ELSE resourceMap
       IN  extractFromTasks(Tail(taskList), extractFromTasks(task.subtasks, withTask))

\* Array.from(resourceMap.values())
extractResources(taskList) ==
  LET resourceMap == extractFromTasks(taskList, <<>>)
  IN  [ i \in 1..Len(resourceMap) |-> resourceMap[i].value ]

\* TaskScheduler.initializeWeeklySchedule
initializeWeeklySchedule(date) ==
  [ i \in 1..WEEKS_TO_CALCULATE |->
      [ weekNumber     |-> i,
        assignedHours  |-> 0,
        availableHours |-> HOURS_PER_WEEK,
        tasks          |-> <<>> ] ]

\* resources.forEach(resource => resourceSchedules.set(resource.id, {...}))
RECURSIVE initResourceSchedules(_, _, _)
initResourceSchedules(rs, date, m) ==
  IF rs = <<>> THEN m
  ELSE initResourceSchedules(Tail(rs), date,
         mapSet(m, Head(rs).id,
                [ resourceId     |-> Head(rs).id,
                  resourceName   |-> Head(rs).name,
                  weeklyCapacity |-> Head(rs).weeklyHours,
                  weeks          |-> initializeWeeklySchedule(date) ]))

\* Date.prototype.getDay of a day number: 0 is Sunday, 1 Monday, ... 6 Saturday
getDay(date) == date % 7

\* getWeekStartDate without the special case of a Sunday
getWeekStartDate_SundayForward(date, weekNumber) ==
  (date + (1 - getDay(date))) + (weekNumber - 1) * 7

\* TaskScheduler.getWeekStartDate
getWeekStartDate(date, weekNumber) ==
  LET dayOfWeek    == getDay(date)
      mondayOffset == IF dayOfWeek = 0 THEN -6 ELSE 1 - dayOfWeek
  IN  (date + mondayOffset) + (weekNumber - 1) * 7

\* getWeekEndDate ending a week on the Monday after it
getWeekEndDate_NextMonday(date, weekNumber) == getWeekStartDate(date, weekNumber) + 7

\* TaskScheduler.getWeekEndDate
getWeekEndDate(date, weekNumber) == getWeekStartDate(date, weekNumber) + 6

\* The filter without its test of the status
passesFilter_IgnoresStatus(task) ==
  IF IsNull(task.assignedTo) THEN FALSE
  ELSE NumTruthy(task.estimatedHours)

\* The filter of calculateProjectSchedule:
\* task.assignedTo && task.estimatedHours && task.status !== 'completed'
passesFilter(task) ==
  IF IsNull(task.assignedTo) THEN FALSE
  ELSE IF ~NumTruthy(task.estimatedHours) THEN FALSE
  ELSE task.status # "completed"

\* Array.prototype.filter
RECURSIVE filterTasks(_)
filterTasks(s) ==
  IF s = <<>> THEN <<>>
  ELSE IF passesFilter(Head(s)) THEN <<Head(s)>> \o filterTasks(Tail(s))
       ELSE filterTasks(Tail(s))

\* A sort by ascending priority
RECURSIVE sortForSchedule_Ascending(_)
sortForSchedule_Ascending(s) ==
  IF s = <<>> THEN <<>>
  ELSE insertByPriority_Ascending(sortForSchedule_Ascending(SubSeq(s, 1, Len(s) - 1)), s[Len(s)])

\* .sort((a, b) => b.priority - a.priority) of calculateProjectSchedule
sortForSchedule(s) == sortByPriorityDesc(s)

\* weekAvailableHours read from the bucket's availableHours field, which the
\* projector never updates.
weekAvailableHours_StaleField(weeklyCapacity, week) == week.availableHours

\* weekAvailableHours with the standard week in place of the resource's capacity
weekAvailableHours_StandardWeek(weeklyCapacity, week) == Max(0, HOURS_PER_WEEK - week.assignedHours)

\* Math.max(0, resourceSchedule.weeklyCapacity - week.assignedHours)
weekAvailableHours(weeklyCapacity, week) == Max(0, weeklyCapacity - week.assignedHours)

\* The timeline with null dates that scheduleTask returns early
nullTimeline(task) ==
  [ taskId             |-> task.id,
    estimatedStartDate |-> Null,
    estimatedEndDate   |-> Null,
    scheduledWeek      |-> Null,
    isScheduled        |-> FALSE,
    blockedBy          |-> <<>>,
    dependentTasks     |-> <<>> ]

\* The week loop stopping one week before the end of the ledger
RECURSIVE fillWeeks_StopsOneShort(_, _, _, _, _)
fillWeeks_StopsOneShort(task, weeklyCapacity, date, weekIndex, st) ==
  IF ~(weekIndex <= Len(st.weeks) - 1 /\ st.remainingHours > 0) THEN st
  ELSE LET week == st.weeks[weekIndex]
           availableHours == weekAvailableHours(weeklyCapacity, week)
       IN  IF availableHours > 0
           THEN LET hoursToSchedule == Min(st.remainingHours, availableHours)
                    item == [ taskId             |-> task.id,
                              hours              |-> hoursToSchedule,
                              priority           |-> task.priority,
                              startWeek          |-> week.weekNumber,
                              endWeek            |-> week.weekNumber,
                              estimatedStartDate |-> getWeekStartDate(date, week.weekNumber),
                              estimatedEndDate   |-> getWeekEndDate(date, week.weekNumber) ]
                IN  fillWeeks_StopsOneShort(task, weeklyCapacity, date, weekIndex + 1,
                      [ weeks          |-> [ st.weeks EXCEPT ![weekIndex] =
                                               [ @ EXCEPT !.tasks = Append(@, item),
                                                          !.assignedHours = @ + hoursToSchedule ] ],
                        remainingHours |-> st.remainingHours - hoursToSchedule,
                        startWeek      |-> IF IsNull(st.startWeek) THEN Some(week.weekNumber)
                                           ELSE st.startWeek,
                        startDate      |-> IF IsNull(st.startWeek)
                                           THEN Some(getWeekStartDate(date, week.weekNumber))
                                           ELSE st.startDate,
                        endWeek        |-> Some(week.weekNumber),
                        endDate        |-> Some(getWeekEndDate(date, week.weekNumber)) ])
           ELSE fillWeeks_StopsOneShort(task, weeklyCapacity, date, weekIndex + 1, st)

\* The week loop of scheduleTask from weekIndex (1-based) on; st holds the
\* weeks of the ledger and the locals remainingHours, startWeek, endWeek,
\* startDate, endDate.
RECURSIVE fillWeeks(_, _, _, _, _)
fillWeeks(task, weeklyCapacity, date, weekIndex, st) ==
  IF ~(weekIndex <= Len(st.weeks) /\ st.remainingHours > 0) THEN st
  ELSE LET week == st.weeks[weekIndex]
           availableHours == weekAvailableHours(weeklyCapacity, week)
       IN  IF availableHours > 0
           THEN LET hoursToSchedule == Min(st.remainingHours, availableHours)
                    item == [ taskId             |-> task.id,
                              hours              |-> hoursToSchedule,
                              priority           |-> task.priority,
                              startWeek          |-> week.weekNumber,
                              endWeek            |-> week.weekNumber,
                              estimatedStartDate |-> getWeekStartDate(date, week.weekNumber),
                              estimatedEndDate   |-> getWeekEndDate(date, week.weekNumber) ]
                IN  fillWeeks(task, weeklyCapacity, date, weekIndex + 1,
                      [ weeks          |-> [ st.weeks EXCEPT ![weekIndex] =
                                               [ @ EXCEPT !.tasks = Append(@, item),
                                                          !.assignedHours = @ + hoursToSchedule ] ],
                        remainingHours |-> st.remainingHours - hoursToSchedule,
                        startWeek      |-> IF IsNull(st.startWeek) THEN Some(week.weekNumber)
                                           ELSE st.startWeek,
                        startDate      |-> IF IsNull(st.startWeek)
                                           THEN Some(getWeekStartDate(date, week.weekNumber))
                                           ELSE st.startDate,
                        endWeek        |-> Some(week.weekNumber),
                        endDate        |-> Some(getWeekEndDate(date, week.weekNumber)) ])
           ELSE fillWeeks(task, weeklyCapacity, date, weekIndex + 1, st)

\* TaskScheduler.scheduleTask: the timeline returned and the ledgers after it
scheduleTask(task, schedulesMap, date) ==
  IF IsNull(task.assignedTo) \/ ~NumTruthy(task.estimatedHours)
  THEN [ timeline |-> nullTimeline(task), resourceSchedules |-> schedulesMap ]
  ELSE LET found == mapGet(schedulesMap, Val(task.assignedTo))
       IN  IF IsNull(found)
           THEN [ timeline |-> nullTimeline(task), resourceSchedules |-> schedulesMap ]
           ELSE LET resourceSchedule == Val(found)
                    st == fillWeeks(task, resourceSchedule.weeklyCapacity, date, 1,
                            [ weeks          |-> resourceSchedule.weeks,
                              remainingHours |-> Val(task.estimatedHours),
                              startWeek      |-> Null,
                              startDate      |-> Null,
                              endWeek        |-> Null,
                              endDate        |-> Null ])
                IN  [ timeline |->
                        [ taskId             |-> task.id,
                          estimatedStartDate |-> st.startDate,
                          estimatedEndDate   |-> st.endDate,
                          scheduledWeek      |-> st.startWeek,
                          isScheduled        |-> st.remainingHours = 0,
                          blockedBy          |-> <<>>,
                          dependentTasks     |-> <<>> ],
                      resourceSchedules |->
                        mapSet(schedulesMap, Val(task.assignedTo),
                               [ resourceSchedule EXCEPT !.weeks = st.weeks ]) ]

-----------------------------------------------------------------------------
(* Projector: the call, one step per scheduled task *)

\* BeginProject keeping the ledgers of an earlier call instead of new ones
BeginProject_KeepsLedgers ==
  /\ UNCHANGED plannerVars
  /\ projPc = "start"
  /\ resourceSchedules' =
       IF resourceSchedules = <<>>
       THEN initResourceSchedules(extractResources(projTasks), currentDate, <<>>)
       ELSE resourceSchedules
  /\ taskTimelines' = <<>>
  /\ projSorted' = sortForSchedule(filterTasks(flattenTasks(projTasks)))
  /\ projIdx' = 1
  /\ projPc' = "loop"
  /\ UNCHANGED <<projTasks, currentDate, projResult, projCalls, projPrevious>>

\* Lines 60-79: ledgers of the resources of the tree, tasks filtered and sorted.
BeginProject ==
  /\ UNCHANGED plannerVars
  /\ projPc = "start"
  /\ resourceSchedules' = initResourceSchedules(extractResources(projTasks), currentDate, <<>>)
  /\ taskTimelines' = <<>>
  /\ projSorted' = sortForSchedule(filterTasks(flattenTasks(projTasks)))
  /\ projIdx' = 1
  /\ projPc' = "loop"
  /\ UNCHANGED <<projTasks, currentDate, projResult, projCalls, projPrevious>>

\* Lines 82-85: one task is scheduled and its timeline stored.
ScheduleTask ==
  /\ UNCHANGED plannerVars
  /\ projPc = "loop"
  /\ projIdx <= Len(projSorted)
  /\ LET task == projSorted[projIdx]
         done == scheduleTask(task, resourceSchedules, currentDate)
     IN  /\ resourceSchedules' = done.resourceSchedules
         /\ taskTimelines' = mapSet(taskTimelines, task.id, done.timeline)
  /\ projIdx' = projIdx + 1
  /\ UNCHANGED <<projPc, projTasks, currentDate, projSorted, projResult, projCalls, projPrevious>>

\* Line 87: the two maps are returned.
ReturnSchedule ==
  /\ UNCHANGED plannerVars
  /\ projPc = "loop"
  /\ projIdx > Len(projSorted)
  /\ projResult' = Some([ taskTimelines |-> taskTimelines, resourceSchedules |-> resourceSchedules ])
  /\ projPc' = "done"
  /\ UNCHANGED <<projTasks, currentDate, resourceSchedules, taskTimelines, projSorted, projIdx,
                 projCalls, projPrevious>>

ProjNext ==
  \/ BeginProject
  \/ ScheduleTask
  \/ ReturnSchedule

-----------------------------------------------------------------------------
(* Projector: inputs *)

MaxTreeTasks == 3

Assignee(n, c) == Some([ name |-> n, weeklyHours |-> c ])

TreeTask(p, h, st, to, who) ==
  [ priority |-> Number(p), estimatedHours |-> h, status |-> st, assignedTo |-> to, assignee |-> who ]

\* Tasks of two resources: resource 1 (40h, also carried with another name and
\* 20h), resource 2 (10h, also referenced without an assignee record); tasks
\* that fit in a week, that span weeks and that exceed the whole horizon;
\* completed, unestimated and unassigned tasks.
TreeTaskKinds ==
  { TreeTask(90, Some(30), "pending", Some(1), Assignee("A", 40)),
    TreeTask(50, Some(500), "pending", Some(1), Assignee("A", 40)),
    TreeTask(50, Some(30), "in_progress", Some(1), Assignee("A2", 20)),
    TreeTask(50, Some(30), "completed", Some(1), Assignee("A", 40)),
    TreeTask(90, Null, "pending", Some(1), Assignee("A", 40)),
    TreeTask(90, Some(30), "pending", Some(2), Assignee("B", 10)),
    TreeTask(50, Some(30), "pending", Some(2), Null),
    TreeTask(50, Some(30), "pending", Null, Null) }

\* The shapes of the ordered forests of n tasks: a forest is the sequence of
\* its trees, a tree the forest of its subtasks.
RECURSIVE ForestShapes(_)
ForestShapes(n) ==
  IF n = 0 THEN { <<>> }
  ELSE UNION { { <<sub>> \o rest : sub \in ForestShapes(k - 1), rest \in ForestShapes(n - k) } :
               k \in 1..n }

RECURSIVE shapeSize(_)
shapeSize(shape) ==
  IF shape = <<>> THEN 0 ELSE 1 + shapeSize(Head(shape)) + shapeSize(Tail(shape))

\* The forest of a shape; the ids of its tasks are firstId, firstId + 1, ... in
\* depth-first order, and the task of id i is of kind kindOf[i].
RECURSIVE buildForest(_, _, _)
buildForest(shape, firstId, kindOf) ==
  IF shape = <<>> THEN <<>>
  ELSE <<[ id |-> firstId, subtasks |-> buildForest(Head(shape), firstId + 1, kindOf) ]
           @@ kindOf[firstId]>>
         \o buildForest(Tail(shape), firstId + 1 + shapeSize(Head(shape)), kindOf)

\* The planner is not called.
PlannerIdle ==
  /\ pc = "idle"
  /\ tasks = <<>>
  /\ resources = <<>>
  /\ schedules = <<>>
  /\ sortedTasks = <<>>
  /\ idx = 0
  /\ assignments = <<>>
  /\ immediateAssignments = 0
  /\ deferredAssignments = 0
  /\ overflowTasks = 0
  /\ preview = Null
  /\ schedulingSummary = Null

\* Reference dates: a Wednesday.
ProjDates == { 10 }

\* calculateProjectSchedule is called on a tree of the given tasks, of one of
\* the given sizes.
ProjCalledWith(kinds, dates, sizes) ==
  /\ projPc = "start"
  /\ \E n \in sizes : \E shape \in ForestShapes(n) : \E kindOf \in [1..n -> kinds] :
       projTasks = buildForest(shape, 1, kindOf)
  /\ currentDate \in dates
  /\ resourceSchedules = <<>>
  /\ taskTimelines = <<>>
  /\ projSorted = <<>>
  /\ projIdx = 0
  /\ projResult = Null
  /\ projCalls = 1
  /\ projPrevious = Null

ProjInitWith(kinds, dates) ==
  /\ PlannerIdle
  /\ ProjCalledWith(kinds, dates, 0..MaxTreeTasks)

ProjInit == ProjInitWith(TreeTaskKinds, ProjDates)

ProjSpec == ProjInit /\ [][ProjNext]_vars

\* Trees mixing a task the filter keeps with tasks it must leave out: completed,
\* without estimate, with a zero or a negative estimate, without assignee.
FilterTaskKinds ==
  { TreeTask(50, Some(30), "pending", Some(1), Assignee("A", 40)),
    TreeTask(90, Some(30), "completed", Some(1), Assignee("A", 40)),
    TreeTask(90, Null, "pending", Some(1), Assignee("A", 40)),
    TreeTask(90, Some(0), "pending", Some(1), Assignee("A", 40)),
    TreeTask(90, Some(-5), "pending", Some(1), Assignee("A", 40)),
    TreeTask(90, Some(30), "pending", Null, Assignee("A", 40)) }

FilterInit == ProjInitWith(FilterTaskKinds, ProjDates)

FilterSpec == FilterInit /\ [][ProjNext]_vars

\* Reference dates: every day of two consecutive calendar weeks, from a
\* Sunday (day 7) to a Saturday (day 20).
FirstRefDate == 7
LastRefDate == 20
WeekDates == FirstRefDate..LastRefDate

\* Tasks of one resource that fill one week or spread over three.
DateTaskKinds ==
  { TreeTask(90, Some(30), "pending", Some(1), Assignee("A", 40)),
    TreeTask(50, Some(90), "pending", Some(1), Assignee("A", 40)) }

DateInit == ProjInitWith(DateTaskKinds, WeekDates)

DateSpec == DateInit /\ [][ProjNext]_vars

\* The schedule page calls the projector from an effect that runs whenever the
\* project is set: it passes project.tasks and no reference date, so the date
\* of a call is the day on which it is made, and it makes no call for a project
\* without tasks.
MaxCalls == 2

\* Tasks of two resources, one of them spread over several weeks.
RepeatTaskKinds ==
  { TreeTask(90, Some(30), "pending", Some(1), Assignee("A", 40)),
    TreeTask(50, Some(90), "pending", Some(1), Assignee("A", 40)),
    TreeTask(50, Some(30), "pending", Some(2), Assignee("B", 10)) }

\* The effect runs again and finds the project as it was or a project of one
\* task, on the same day or on the same weekday a week later. The page keeps
\* what the previous call returned; here
\* it is kept with the arguments of that call. The TaskScheduler has no field
\* besides its two constants; the locals of the new call are set by
\* BeginProject.
CallAgain ==
  /\ UNCHANGED plannerVars
  /\ projPc = "done"
  /\ projCalls < MaxCalls
  /\ \E tree \in { projTasks }
                   \cup { buildForest(<< <<>> >>, 1, [ i \in {1} |-> kind ]) :
                            kind \in RepeatTaskKinds } :
       /\ Len(tree) > 0
       /\ projTasks' = tree
  /\ \E days \in { 0, 7 } : currentDate' = currentDate + days
  /\ projPrevious' = Some([ result      |-> Val(projResult),
                            tasks       |-> projTasks,
                            currentDate |-> currentDate ])
  /\ projResult' = Null
  /\ projCalls' = projCalls + 1
  /\ projPc' = "start"
  /\ UNCHANGED <<resourceSchedules, taskTimelines, projSorted, projIdx>>

RepeatNext ==
  \/ ProjNext
  \/ CallAgain

\* The first run of the effect that makes a call: the project has tasks.
RepeatInit ==
  /\ ProjInitWith(RepeatTaskKinds, ProjDates)
  /\ Len(projTasks) > 0

RepeatSpec == RepeatInit /\ [][RepeatNext]_vars

\* Tasks that fit, that exceed the twelve weeks of their resource, and tasks of
\* resources with a negative and with no capacity.
HorizonTaskKinds ==
  { TreeTask(90, Some(30), "pending", Some(1), Assignee("A", 40)),
    TreeTask(50, Some(500), "pending", Some(1), Assignee("A", 40)),
    TreeTask(50, Some(30), "pending", Some(2), Assignee("N", -10)),
    TreeTask(50, Some(30), "pending", Some(3), Assignee("Z", 0)) }

HorizonInit == ProjInitWith(HorizonTaskKinds, ProjDates)

HorizonSpec == HorizonInit /\ [][ProjNext]_vars

-----------------------------------------------------------------------------
(* Planner and projector with resources of zero or negative capacity *)

\* Either entry point is called on a team with resources of capacity 0 and
\* below 0, next to resources with room, to one committed beyond its capacity
\* and to one of capacity 0 with negative committed hours; or both entry points
\* are called, each on a small input.
ZeroCapInit ==
  \/ PlannerInitWith(
       { Task(50, Some(10), sEmpty), Task(90, Some(35), sEmpty), Task(50, Some(0), sEmpty),
         Task(50, Some(10), <<"c","o","n","s","t","r","u","c","t","o","r">>) },
       { Resource(sManagerC, 0, Null), Resource(sUIDesigner, 0, Some(20)),
         Resource(sManagerC, -10, Null), Resource(sManagerC, 40, Some(20)),
         Resource(sUIDesigner, 40, Some(45)), Resource(sManagerC, 0, Some(-20)) })
  \/ ProjInitWith(
       { TreeTask(90, Some(30), "pending", Some(1), Assignee("Z", 0)),
         TreeTask(50, Some(30), "pending", Some(2), Assignee("N", -10)),
         TreeTask(50, Some(30), "pending", Some(3), Assignee("B", 10)) },
       ProjDates)
  \/ /\ PlannerCalledWith(
          { Task(50, Some(10), sEmpty), Task(90, Some(35), sEmpty) },
          { Resource(sManagerC, 0, Null), Resource(sManagerC, 40, Some(20)) })
     /\ ProjCalledWith(
          { TreeTask(90, Some(30), "pending", Some(1), Assignee("Z", 0)),
            TreeTask(50, Some(30), "pending", Some(3), Assignee("B", 10)) },
          ProjDates, {2})

ZeroCapNext ==
  \/ PlannerNext
  \/ ProjNext

ZeroCapSpec == ZeroCapInit /\ [][ZeroCapNext]_vars

-----------------------------------------------------------------------------
(* Claims about the planner *)

PlanReturned == ~IsNull(preview)
Plan == Val(preview)

\* The hours committed to a resource before the call.
committedHours(r) == OrZero(resources[r].currentlyAssignedHours)

\* C1 as stated: in every returned plan, every week bucket of every resource,
\* with or without committed hours, has assignedHours <= weeklyCapacity.
C1_AsStated ==
  IF ~PlanReturned THEN TRUE
  ELSE \A s \in 1..Len(Plan.schedules) : \A w \in 1..MAX_WEEKS :
         Plan.schedules[s].weeks[w].assignedHours <= Plan.schedules[s].weeklyCapacity

\* The hours in week w of resource s when the ledger is built.
initialHours(s, w) == IF w = 1 THEN committedHours(s) ELSE 0

\* C1 amended: in every returned plan, a week bucket whose assignedHours exceed
\* the weeklyCapacity of its resource holds no placement and exactly the hours
\* it started with (currentlyAssignedHours in week 1, 0 in a later week): every
\* bucket that received a placement has assignedHours <= weeklyCapacity.
C1_CapacityInvariant ==
  IF ~PlanReturned THEN TRUE
  ELSE \A s \in 1..Len(Plan.schedules) : \A w \in 1..MAX_WEEKS :
         LET bucket == Plan.schedules[s].weeks[w]
         IN  \/ bucket.assignedHours <= Plan.schedules[s].weeklyCapacity
             \/ /\ bucket.tasks = <<>>
                /\ bucket.assignedHours = initialHours(s, w)

\* A returned plan with a resource of negative capacity, whose empty buckets
\* are above it, and a resource committed beyond its capacity that received a
\* placement in a later week, filled to more than half by two placements.
C1_Witness ==
  /\ PlanReturned
  /\ \E s \in 1..Len(Plan.schedules) :
       /\ Plan.schedules[s].weeklyCapacity < 0
       /\ Plan.schedules[s].weeks[2].assignedHours = 0
  /\ \E s \in 1..Len(Plan.schedules) :
       /\ committedHours(s) > Plan.schedules[s].weeklyCapacity
       /\ \E w \in 2..MAX_WEEKS :
            /\ Len(Plan.schedules[s].weeks[w].tasks) >= 2
            /\ 2 * Plan.schedules[s].weeks[w].assignedHours > Plan.schedules[s].weeklyCapacity

\* C2: in every planner result immediateAssignments + deferredAssignments +
\* overflowTasks = totalTasks = the number of input tasks, immediateAssignments
\* is the number of returned assignments with scheduledWeek = 1 and
\* deferredAssignments the number with scheduledWeek > 1.
C2_OverflowConservation ==
  IF ~PlanReturned THEN TRUE
  ELSE LET sm == Plan.summary
           week1 == { i \in 1..Len(Plan.assignments) : Plan.assignments[i].scheduledWeek = 1 }
           later == { i \in 1..Len(Plan.assignments) : Plan.assignments[i].scheduledWeek > 1 }
       IN  /\ sm.immediateAssignments + sm.deferredAssignments + sm.overflowTasks = sm.totalTasks
           /\ sm.totalTasks = Cardinality({ tasks[i].id : i \in 1..Len(tasks) })
           /\ sm.immediateAssignments = Cardinality(week1)
           /\ sm.deferredAssignments = Cardinality(later)

\* A returned plan with an immediate assignment, a deferred one and an overflow.
C2_Witness ==
  /\ PlanReturned
  /\ Plan.summary.immediateAssignments >= 1
  /\ Plan.summary.deferredAssignments >= 1
  /\ Plan.summary.overflowTasks >= 1

-----------------------------------------------------------------------------
(* The role rule and the steps of the loop, as the claims state them *)

\* Required role and resource role are compatible: case-insensitive exact
\* match; a synonym-table entry contained in, or containing, the resource role;
\* resource role 'other' or 'general'; required role empty, blank or 'any'.
RoleRule(required, resourceRole) ==
  LET req == toLowerCase(required)
      res == toLowerCase(resourceRole)
      synonyms == synonymsOf(req)
  IN  \/ req = res
      \/ \E k \in 1..Len(synonyms) : includes(res, synonyms[k]) \/ includes(synonyms[k], res)
      \/ res \in { <<"o","t","h","e","r">>, <<"g","e","n","e","r","a","l">> }
      \/ req = <<>>
      \/ \A i \in 1..Len(req) : req[i] \in WhiteSpace
      \/ req = <<"a","n","y">>

\* The loop handles the task sortedTasks[idx] in this step.
ProcessesTask == pc = "loop" /\ idx <= Len(sortedTasks) /\ idx' = idx + 1
CurrentTask == sortedTasks[idx]

\* The step appends an assignment / counts an overflow.
CommitsTask == ProcessesTask /\ Len(assignments') = Len(assignments) + 1
NewAssignment == assignments'[Len(assignments')]
CountsOverflow == overflowTasks' = overflowTasks + 1 /\ assignments' = assignments

HasPositiveHours(task) ==
  IF IsNull(task.estimatedHours) THEN FALSE ELSE Val(task.estimatedHours) > 0

\* Resource s has a week with room for h hours in the ledger before the step.
HasRoom(s, h) == \E w \in 1..MAX_WEEKS : schedules[s].weeks[w].availableHours >= h

\* The first such week.
FirstRoom(s, h) ==
  CHOOSE w \in 1..MAX_WEEKS :
    /\ schedules[s].weeks[w].availableHours >= h
    /\ \A v \in 1..(w - 1) : schedules[s].weeks[v].availableHours < h

\* The task of the caller's list with a given id.
TaskOfId(id) == CHOOSE t \in { tasks[i] : i \in 1..Len(tasks) } : t.id = id

\* C3 as stated: for tasks of any integer priority, a task is counted in
\* overflowTasks (and gets no assignment) if and only if it has no positive
\* estimatedHours or, when it is processed, no role-compatible resource has a
\* week with availableHours >= its estimatedHours; every other task is committed.
C3_OverflowIff ==
  [][ ProcessesTask =>
        LET task == CurrentTask
            unplaceable ==
              IF ~HasPositiveHours(task) THEN TRUE
              ELSE ~\E s \in 1..Len(schedules) :
                      /\ RoleRule(task.requiredRole, schedules[s].role)
                      /\ HasRoom(s, Val(task.estimatedHours))
        IN  /\ CountsOverflow <=> unplaceable
            /\ ~unplaceable => /\ CommitsTask
                               /\ NewAssignment.taskId = task.id
                               /\ overflowTasks' = overflowTasks ]_vars

\* C4: every assignment pairs a task with a resource whose role is compatible
\* with the task's required role under the role rule; a task requiring
\* 'designer' is never assigned to a resource whose role is 'Manager'.
C4_RoleGate ==
  \A i \in 1..Len(assignments) :
    LET required == TaskOfId(assignments[i].taskId).requiredRole
        role     == resources[assignments[i].resourceId].role
    IN  /\ RoleRule(required, role)
        /\ ~(toLowerCase(required) = sDesigner /\ role = sManagerC)

\* A designer task was assigned while a Manager stood first in the resource
\* list, and a task with a role requirement went to an 'Other' resource.
C4_Witness ==
  /\ Len(resources) = 2
  /\ resources[1].role = sManagerC
  /\ \E i \in 1..Len(assignments) :
       /\ toLowerCase(TaskOfId(assignments[i].taskId).requiredRole) = sDesigner
       /\ assignments[i].resourceId = 2
  /\ \E i \in 1..Len(assignments) :
       /\ TaskOfId(assignments[i].taskId).requiredRole = sManager
       /\ resources[assignments[i].resourceId].role \in {sOther, sGeneral}

\* A commit puts the whole task in the first week of the chosen resource that
\* had room for it and touches no other bucket.
C5_CommitIsFirstFit ==
  CommitsTask =>
    LET task == CurrentTask
        h == Val(task.estimatedHours)
        r == NewAssignment.resourceId
        w == NewAssignment.scheduledWeek
        before == schedules[r].weeks[w]
        after == schedules'[r].weeks[w]
    IN  /\ NewAssignment.taskId = task.id
        /\ schedules[r].resourceId = r
        /\ before.availableHours >= h
        /\ \A v \in 1..(w - 1) : schedules[r].weeks[v].availableHours < h
        /\ after.assignedHours = before.assignedHours + h
        /\ after.availableHours = before.availableHours - h
        /\ after.tasks = Append(before.tasks, [ taskId |-> task.id, hours |-> h, priority |-> task.priority ])
        /\ \A s \in 1..Len(schedules) : \A v \in 1..MAX_WEEKS :
             (s # r \/ v # w) => schedules'[s].weeks[v] = schedules[s].weeks[v]

\* The input is the example: one 40h resource, tasks (90, 10h) and (50, 35h).
C5_IsExample ==
  /\ Len(resources) = 1
  /\ resources[1].weeklyHours = 40
  /\ IsNull(resources[1].currentlyAssignedHours)
  /\ { [ p |-> tasks[i].priority, h |-> tasks[i].estimatedHours ] : i \in 1..Len(tasks) }
       = { [ p |-> Number(90), h |-> Some(10) ], [ p |-> Number(50), h |-> Some(35) ] }
  /\ Len(tasks) = 2
  /\ \A i \in 1..Len(tasks) : tasks[i].requiredRole = <<>>

\* The plan of the example: the priority-90 task in week 1, the other in week 2.
C5_Example ==
  (PlanReturned /\ C5_IsExample) =>
    /\ Len(Plan.assignments) = 2
    /\ \A i \in 1..2 :
         Plan.assignments[i].scheduledWeek =
           (IF TaskOfId(Plan.assignments[i].taskId).priority = Number(90) THEN 1 ELSE 2)

\* C5: no splitting, per-resource first fit.  In every commit of a task to
\* (resource, week w): before the commit, bucket w of the resource had
\* availableHours >= the task's hours and no earlier week of it did; the task's
\* full hours go to that bucket and every other bucket of every resource is
\* left as it was.  Example: one 40h resource, tasks (priority 90, 10h) and
\* (priority 50, 35h) are assigned to week 1 and week 2.
C5_NoSplitFirstFit == [][C5_CommitIsFirstFit]_vars /\ []C5_Example

\* The example of C5 has been planned with the 35h task first in the input:
\* the 35h task sits whole in week 2 although week 1 still has 30h available.
C5_Witness ==
  /\ PlanReturned
  /\ C5_IsExample
  /\ TaskOfId(1).priority = Number(50)
  /\ Plan.schedules[1].weeks[1].availableHours = 30
  /\ Plan.schedules[1].weeks[2].assignedHours = 35

\* The placements present in the ledger.
LedgerPlacements ==
  UNION { { schedules[s].weeks[w].tasks[k] : k \in 1..Len(schedules[s].weeks[w].tasks) } :
          s \in 1..Len(schedules), w \in 1..MAX_WEEKS }

\* C6: tasks are evaluated and committed in non-increasing priority order,
\* input order among equal priorities: the processing order is the input
\* sorted that way, and whenever a task is about to be evaluated every
\* placement in any ledger bucket belongs to an earlier task of the order,
\* of greater-or-equal priority.
C6_PriorityOrder ==
  pc = "loop" =>
    /\ \A i \in 1..Len(sortedTasks) : \A j \in (i + 1)..Len(sortedTasks) :
         \/ numGreater(sortedTasks[i].priority, sortedTasks[j].priority)
         \/ /\ numEqual(sortedTasks[i].priority, sortedTasks[j].priority)
            /\ sortedTasks[i].id < sortedTasks[j].id
    /\ { sortedTasks[i].id : i \in 1..Len(sortedTasks) } = 1..Len(sortedTasks)
    /\ \A pl \in LedgerPlacements :
         /\ \E i \in 1..(idx - 1) : sortedTasks[i].id = pl.taskId /\ sortedTasks[i].priority = pl.priority
         /\ idx <= Len(sortedTasks) => numGreaterOrEqual(pl.priority, sortedTasks[idx].priority)

\* A priority-50 task is about to be evaluated while week 1 of a resource
\* holds the placement of a priority-90 task that came after it in the input.
C6_Witness ==
  /\ pc = "loop"
  /\ idx <= Len(sortedTasks)
  /\ sortedTasks[idx].priority = Number(50)
  /\ \E s \in 1..Len(schedules) : \E k \in 1..Len(schedules[s].weeks[1].tasks) :
       /\ schedules[s].weeks[1].tasks[k].priority = Number(90)
       /\ schedules[s].weeks[1].tasks[k].taskId > sortedTasks[idx].id

\* C7: a resource whose currentlyAssignedHours is greater than or equal to its
\* weeklyCapacity never gets a task in week 1.
C7_NoWeek1WhenCommitted ==
  \A s \in 1..Len(schedules) :
    committedHours(s) >= resources[s].weeklyHours =>
      /\ schedules[s].weeks[1].tasks = <<>>
      /\ \A i \in 1..Len(assignments) :
           ~(assignments[i].resourceId = resources[s].id /\ assignments[i].scheduledWeek = 1)

\* Two resources, one committed to exactly its capacity and one beyond it,
\* each of which received a task in a later week.
C7_Witness ==
  /\ PlanReturned
  /\ \E s, t \in 1..Len(resources) :
       /\ committedHours(s) = resources[s].weeklyHours
       /\ committedHours(t) > resources[t].weeklyHours
       /\ \E i, j \in 1..Len(assignments) :
            /\ assignments[i].resourceId = s
            /\ assignments[j].resourceId = t

\* The step that handles a task without positive hours only counts an overflow.
C8_HourlessStep ==
  (ProcessesTask /\ ~HasPositiveHours(CurrentTask)) =>
    /\ overflowTasks' = overflowTasks + 1
    /\ assignments' = assignments
    /\ schedules' = schedules
    /\ immediateAssignments' = immediateAssignments
    /\ deferredAssignments' = deferredAssignments

\* No assignment is for a task without positive hours.
C8_NeverAssigned ==
  \A i \in 1..Len(assignments) : HasPositiveHours(TaskOfId(assignments[i].taskId))

\* C8: a task whose estimatedHours is 0, missing or negative is counted in
\* overflowTasks, never appears in assignments, and leaves every ledger bucket
\* unchanged.
C8_HourlessIsOverflow == [][C8_HourlessStep]_vars /\ []C8_NeverAssigned

\* A plan was returned for three tasks without hours (missing, zero, negative)
\* and all three are counted as overflow.
C8_Witness ==
  /\ PlanReturned
  /\ Len(tasks) = 3
  /\ { tasks[i].estimatedHours : i \in 1..Len(tasks) } = { Null, Some(0), Some(-5) }
  /\ Len(resources) >= 1
  /\ Plan.summary.overflowTasks = 3
  /\ Plan.assignments = <<>>

\* The stated score of placing the task in week w of resource r minus that of
\* placing it in week v of resource s, on the ledger before the step, times the
\* two capacities: the priority is the same on both sides, and
\*   ((12 - w)*10 + (1 - a_r/c_r)*20 + bonus_w) - ((12 - v)*10 + (1 - a_s/c_s)*20 + bonus_v)
\* times c_r * c_s is an integer.  For positive capacities it is above, at or
\* below 0 as the first score is above, equal to or below the second.
StatedScoreDifference(task, r, w, s, v) ==
  LET bonus(week) ==
        IF numGreaterOrEqual(task.priority, Number(80)) /\ week = 1 THEN 50 ELSE 0
      c_r == schedules[r].weeklyCapacity
      c_s == schedules[s].weeklyCapacity
      a_r == schedules[r].weeks[w].assignedHours
      a_s == schedules[s].weeks[v].assignedHours
  IN  (((12 - w) * 10 + bonus(w)) - ((12 - v) * 10 + bonus(v))) * c_r * c_s
        - 20 * (a_r * c_s - a_s * c_r)

\* A commit takes a candidate no other candidate outscores, the first such in
\* the resource list.
C9_CommitIsBest ==
  (CommitsTask /\ \A s \in 1..Len(schedules) : schedules[s].weeklyCapacity > 0) =>
    LET task == CurrentTask
        h == Val(task.estimatedHours)
        candidates == { s \in 1..Len(schedules) :
                          RoleRule(task.requiredRole, schedules[s].role) /\ HasRoom(s, h) }
        r == NewAssignment.resourceId
    IN  /\ r \in candidates
        /\ NewAssignment.scheduledWeek = FirstRoom(r, h)
        /\ \A s \in candidates :
             /\ StatedScoreDifference(task, r, FirstRoom(r, h), s, FirstRoom(s, h)) >= 0
             /\ StatedScoreDifference(task, r, FirstRoom(r, h), s, FirstRoom(s, h)) = 0 => r <= s

\* C9: for each task the planner commits, the committed candidate has the
\* highest score = priority + (12 - w)*10 + (1 - assignedHours/weeklyCapacity)*20
\* + (50 if priority >= 80 and w = 1) among the candidates (role-compatible
\* resource, its first-fit week w); among candidates of the same score the
\* resource that comes first in the resource list is chosen.
C9_BestScoreWins == [][C9_CommitIsBest]_vars

-----------------------------------------------------------------------------
(* Claims about the projector *)

ScheduleReturned == ~IsNull(projResult)

\* Every bucket of every ledger of the map m with positive weekly capacity
\* holds at most the weekly capacity.
WithinCapacity(m) ==
  \A i \in 1..Len(m) :
    m[i].value.weeklyCapacity > 0 =>
      \A w \in 1..Len(m[i].value.weeks) :
        m[i].value.weeks[w].assignedHours <= m[i].value.weeklyCapacity

\* C10: in the projector, after every placement and in the returned ledgers,
\* every week bucket of every resource with positive weekly capacity has
\* assignedHours <= weeklyCapacity.
C10_ProjectorCapacity ==
  /\ WithinCapacity(resourceSchedules)
  /\ ScheduleReturned => WithinCapacity(Val(projResult).resourceSchedules)

\* A returned ledger in which two tasks share a full bucket (the second one
\* was split) and the last week of the horizon is full as well.
C10_Witness ==
  /\ ScheduleReturned
  /\ \E i \in 1..Len(Val(projResult).resourceSchedules) :
       LET ledger == Val(projResult).resourceSchedules[i].value
       IN  /\ Len(ledger.weeks[1].tasks) = 2
           /\ ledger.weeks[1].assignedHours = ledger.weeklyCapacity
           /\ ledger.weeks[WEEKS_TO_CALCULATE].assignedHours = ledger.weeklyCapacity

-----------------------------------------------------------------------------
(* Claims about the projector: timelines *)

Returned == Val(projResult)

\* The Monday on or before a day number (day 0 is a Sunday, day 1 a Monday).
MondayOnOrBefore(date) == date - ((date + 6) % 7)

\* First and last day of week w counted from the week of the reference date.
WeekFirstDay(w) == MondayOnOrBefore(currentDate) + 7 * (w - 1)
WeekLastDay(w) == WeekFirstDay(w) + 6

\* The hours of the placements of task id in a bucket.
RECURSIVE HoursOfTaskIn(_, _)
HoursOfTaskIn(items, id) ==
  IF items = <<>> THEN 0
  ELSE (IF Head(items).taskId = id THEN Head(items).hours ELSE 0) + HoursOfTaskIn(Tail(items), id)

\* The hours of the placements of task id in the weeks 1..w of a ledger.
RECURSIVE HoursOfTaskUpTo(_, _, _)
HoursOfTaskUpTo(ledger, id, w) ==
  IF w = 0 THEN 0
  ELSE HoursOfTaskIn(ledger.weeks[w].tasks, id) + HoursOfTaskUpTo(ledger, id, w - 1)

\* The hours of the placements of task id in the ledgers 1..i of the map m.
RECURSIVE PlacedHoursUpTo(_, _, _)
PlacedHoursUpTo(m, id, i) ==
  IF i = 0 THEN 0
  ELSE HoursOfTaskUpTo(m[i].value, id, Len(m[i].value.weeks)) + PlacedHoursUpTo(m, id, i - 1)

PlacedHours(m, id) == PlacedHoursUpTo(m, id, Len(m))

\* The weeks in which some ledger of the map m holds a placement of task id.
WeeksTouched(m, id) ==
  { w \in 1..WEEKS_TO_CALCULATE :
      \E i \in 1..Len(m) :
        /\ w <= Len(m[i].value.weeks)
        /\ \E k \in 1..Len(m[i].value.weeks[w].tasks) : m[i].value.weeks[w].tasks[k].taskId = id }

SetMin(S) == CHOOSE x \in S : \A y \in S : x <= y
SetMax(S) == CHOOSE x \in S : \A y \in S : x >= y

\* The task of the flattened input tree with the given id.
TreeTaskOfId(id) ==
  LET flat == flattenTasks(projTasks)
  IN  flat[CHOOSE i \in 1..Len(flat) : flat[i].id = id]

\* Every week of the ledger of resource id r is full.
HorizonExhausted(m, r) ==
  /\ mapHas(m, r)
  /\ \A w \in 1..Len(Val(mapGet(m, r)).weeks) :
       Val(mapGet(m, r)).weeks[w].assignedHours >= Val(mapGet(m, r)).weeklyCapacity

C11_TimelineOf(tl) ==
  LET m       == Returned.resourceSchedules
      task    == TreeTaskOfId(tl.taskId)
      touched == WeeksTouched(m, tl.taskId)
  IN  /\ touched # {} =>
           /\ tl.scheduledWeek = Some(SetMin(touched))
           /\ tl.estimatedStartDate = Some(WeekFirstDay(SetMin(touched)))
           /\ tl.estimatedEndDate = Some(WeekLastDay(SetMax(touched)))
      /\ tl.isScheduled <=>
           IF IsNull(task.estimatedHours) THEN FALSE
           ELSE PlacedHours(m, tl.taskId) = Val(task.estimatedHours)
      /\ (~IsNull(tl.estimatedStartDate) /\ ~IsNull(tl.estimatedEndDate) /\ ~tl.isScheduled) =>
           IF IsNull(task.assignedTo) THEN FALSE
           ELSE HorizonExhausted(m, Val(task.assignedTo))

\* C11: in the returned schedule, the timeline of every placed task has the
\* first week that received any of its hours as scheduledWeek and start date,
\* the end of the last such week as end date, and isScheduled exactly when the
\* placed hours add up to its estimatedHours; a timeline with dates and
\* isScheduled = false occurs only when every week of the resource's horizon
\* is full.
C11_TimelineMatchesPlacements ==
  ScheduleReturned =>
    \A i \in 1..Len(Returned.taskTimelines) : C11_TimelineOf(Returned.taskTimelines[i].value)

\* A returned schedule with a task placed over several weeks and fully
\* scheduled, and another one cut off by the end of the horizon.
C11_Witness ==
  /\ ScheduleReturned
  /\ \E i \in 1..Len(Returned.taskTimelines) :
       LET tl == Returned.taskTimelines[i].value
       IN  /\ tl.isScheduled
           /\ Cardinality(WeeksTouched(Returned.resourceSchedules, tl.taskId)) >= 2
  /\ \E i \in 1..Len(Returned.taskTimelines) :
       LET tl == Returned.taskTimelines[i].value
       IN  /\ ~tl.isScheduled
           /\ ~IsNull(tl.estimatedStartDate)
           /\ Val(tl.scheduledWeek) = 1
           /\ tl.estimatedEndDate = Some(WeekLastDay(WEEKS_TO_CALCULATE))

\* The filter as the projector's contract words it: an assignee, a positive
\* estimated effort and a status other than completed.
MeetsFilterRule(task) ==
  /\ ~IsNull(task.assignedTo)
  /\ IF IsNull(task.estimatedHours) THEN FALSE ELSE Val(task.estimatedHours) > 0
  /\ task.status # "completed"

IsNullTimeline(tl) ==
  /\ tl.estimatedStartDate = Null
  /\ tl.estimatedEndDate = Null
  /\ tl.scheduledWeek = Null
  /\ tl.isScheduled = FALSE

\* C12: every task of the flattened input tree that fails the filter (no
\* assignee, no positive estimated effort, or status completed) has an entry in
\* the returned taskTimelines with null start date, end date and scheduledWeek
\* and isScheduled = false.
C12_FilteredHaveNullTimeline ==
  ScheduleReturned =>
    \A i \in 1..Len(flattenTasks(projTasks)) :
      LET task == flattenTasks(projTasks)[i]
      IN  ~MeetsFilterRule(task) =>
            /\ mapHas(Returned.taskTimelines, task.id)
            /\ IsNullTimeline(Val(mapGet(Returned.taskTimelines, task.id)))

-----------------------------------------------------------------------------
(* Claims about the projector: ledgers *)

\* C13: in every returned ledger, each bucket's availableHours equals
\* max(0, weeklyCapacity - assignedHours) of its resource.
C13_AvailableHoursTracked ==
  ScheduleReturned =>
    \A i \in 1..Len(Returned.resourceSchedules) :
      LET ledger == Returned.resourceSchedules[i].value
      IN  \A w \in 1..Len(ledger.weeks) :
            ledger.weeks[w].availableHours
              = Max(0, ledger.weeklyCapacity - ledger.weeks[w].assignedHours)

\* The first task in depth-first order that carries resource id r together
\* with an assignee record.
FirstCarrier(r) ==
  LET flat == flattenTasks(projTasks)
      carriers == { i \in 1..Len(flat) :
                      /\ ~IsNull(flat[i].assignee)
                      /\ flat[i].assignedTo = Some(r) }
  IN  flat[SetMin(carriers)]

CarriedResourceIds ==
  LET flat == flattenTasks(projTasks)
  IN  { Val(flat[i].assignedTo) :
          i \in { j \in 1..Len(flat) : ~IsNull(flat[j].assignee) /\ ~IsNull(flat[j].assignedTo) } }

\* C14: there is exactly one ledger per distinct resource id carried by the
\* tree, and it has the name and weekly capacity of the first task in
\* depth-first order that carries the id.
C14_FirstOccurrenceWins ==
  ScheduleReturned =>
    LET m == Returned.resourceSchedules
    IN  /\ { m[i].key : i \in 1..Len(m) } = CarriedResourceIds
        /\ \A i, j \in 1..Len(m) : m[i].key = m[j].key => i = j
        /\ \A i \in 1..Len(m) :
             /\ m[i].value.resourceId = m[i].key
             /\ m[i].value.resourceName = Val(FirstCarrier(m[i].key).assignee).name
             /\ m[i].value.weeklyCapacity = Val(FirstCarrier(m[i].key).assignee).weeklyHours

\* The hours of all the placements of a bucket.
RECURSIVE PlacedHoursInBucket(_)
PlacedHoursInBucket(items) ==
  IF items = <<>> THEN 0 ELSE Head(items).hours + PlacedHoursInBucket(Tail(items))

\* Every placement of every bucket of the map m belongs to a task that meets
\* the filter rule, and the assigned hours of a bucket are those of its
\* placements.
OnlyEligiblePlaced(m) ==
  \A i \in 1..Len(m) : \A w \in 1..Len(m[i].value.weeks) :
    LET bucket == m[i].value.weeks[w]
    IN  /\ \A k \in 1..Len(bucket.tasks) : MeetsFilterRule(TreeTaskOfId(bucket.tasks[k].taskId))
        /\ \A k \in 1..Len(bucket.tasks) : bucket.tasks[k].hours > 0
        /\ bucket.assignedHours
             = PlacedHoursInBucket(bucket.tasks)

\* C15: a task with status completed, without an assignee, or without a
\* positive estimated effort never adds a placement or any assigned hours to
\* any ledger bucket, wherever it sits in the tree and whatever its priority.
C15_FilteredNeverPlaced ==
  /\ OnlyEligiblePlaced(resourceSchedules)
  /\ ScheduleReturned => OnlyEligiblePlaced(Returned.resourceSchedules)

\* A returned schedule with a placement, for a tree whose first task has a
\* higher priority than the placed one, has subtasks and fails the filter.
C15_Witness ==
  /\ ScheduleReturned
  /\ projTasks # <<>>
  /\ ~MeetsFilterRule(projTasks[1])
  /\ projTasks[1].subtasks # <<>>
  /\ \E i \in 1..Len(Returned.resourceSchedules) :
       LET bucket == Returned.resourceSchedules[i].value.weeks[1]
       IN  /\ bucket.tasks # <<>>
           /\ numGreater(projTasks[1].priority, bucket.tasks[1].priority)

-----------------------------------------------------------------------------
(* Claims about the projector: week dates *)

\* The dates of the placements of the map m are those of their weeks.
PlacementDatesOf(m) ==
  \A i \in 1..Len(m) : \A w \in 1..Len(m[i].value.weeks) :
    \A k \in 1..Len(m[i].value.weeks[w].tasks) :
      LET item == m[i].value.weeks[w].tasks[k]
      IN  /\ getDay(item.estimatedStartDate) = 1
          /\ item.estimatedStartDate = getWeekStartDate(currentDate, 1) + 7 * (w - 1)
          /\ item.estimatedEndDate = item.estimatedStartDate + 6

\* C16: for any reference date, week 1 starts on the Monday of the calendar
\* week containing it (start(1) <= reference date <= end(1), a Sunday mapping
\* to the Monday 6 days earlier); week N starts 7*(N-1) days after week 1 and
\* ends 6 days after its own start, so that consecutive weeks tile the
\* calendar; the placements of a week carry these dates.
C16_WeekDates ==
  /\ getDay(getWeekStartDate(currentDate, 1)) = 1
  /\ getWeekStartDate(currentDate, 1) <= currentDate
  /\ currentDate <= getWeekEndDate(currentDate, 1)
  /\ getDay(getWeekEndDate(currentDate, 1)) = 0
  /\ getDay(currentDate) = 0 => getWeekStartDate(currentDate, 1) = currentDate - 6
  /\ \A N \in 1..WEEKS_TO_CALCULATE :
       /\ getWeekStartDate(currentDate, N) = getWeekStartDate(currentDate, 1) + 7 * (N - 1)
       /\ getWeekEndDate(currentDate, N) = getWeekStartDate(currentDate, N) + 6
       /\ N < WEEKS_TO_CALCULATE =>
            getWeekStartDate(currentDate, N + 1) = getWeekEndDate(currentDate, N) + 1
  /\ PlacementDatesOf(resourceSchedules)

\* A schedule returned for a Sunday reference date with a placement in week 2,
\* which starts the day after the reference date.
C16_Witness ==
  /\ ScheduleReturned
  /\ getDay(currentDate) = 0
  /\ \E i \in 1..Len(Returned.resourceSchedules) :
       LET bucket == Returned.resourceSchedules[i].value.weeks[2]
       IN  /\ bucket.tasks # <<>>
           /\ bucket.tasks[1].estimatedStartDate = currentDate + 1

-----------------------------------------------------------------------------
(* Claims about the projector: repeated calls *)

\* C17: a second call of the projector with the same task tree and the same
\* reference date returns the same timelines and the same ledgers as the
\* first; it does not depend on the placements of the first call.
C17_SecondCallIdentical ==
  (projPc = "done" /\ projCalls >= 2) =>
    /\ ~IsNull(projPrevious)
    /\ (Val(projPrevious).tasks = projTasks /\ Val(projPrevious).currentDate = currentDate) =>
         /\ Val(projResult).taskTimelines = Val(projPrevious).result.taskTimelines
         /\ Val(projResult).resourceSchedules = Val(projPrevious).result.resourceSchedules

\* A second call with the tree and the date of the first has returned a
\* schedule with two tasks placed in the same ledger.
C17_Witness ==
  /\ projPc = "done"
  /\ projCalls = 2
  /\ ~IsNull(projPrevious)
  /\ Val(projPrevious).tasks = projTasks
  /\ Val(projPrevious).currentDate = currentDate
  /\ \E i \in 1..Len(Returned.resourceSchedules) :
       Len(Returned.resourceSchedules[i].value.weeks[1].tasks) = 2

-----------------------------------------------------------------------------
(* Claims about the planner: inputs *)

\* C18: the planner does not mutate its inputs: no step of the call changes
\* the caller's task list (same elements, same order, same field values) or
\* the caller's resource records.
C18_InputsUnchanged == [][tasks' = tasks /\ resources' = resources]_vars

-----------------------------------------------------------------------------
(* Claims about the projector: a task of a resource without ledger *)

\* The task has an assignedTo id that no task of the tree carries together
\* with an assignee record.
LacksLedger(task) ==
  IF IsNull(task.assignedTo) THEN FALSE
  ELSE Val(task.assignedTo) \notin CarriedResourceIds

SchedulesOneTask ==
  /\ projPc = "loop"
  /\ projIdx <= Len(projSorted)
  /\ projIdx' = projIdx + 1

C19_MissingLedgerStep ==
  (SchedulesOneTask /\ LacksLedger(projSorted[projIdx])) =>
    /\ resourceSchedules' = resourceSchedules
    /\ projPc' = "loop"
    /\ mapHas(taskTimelines', projSorted[projIdx].id)
    /\ IsNullTimeline(Val(mapGet(taskTimelines', projSorted[projIdx].id)))

C19_AllProcessed ==
  ScheduleReturned =>
    /\ projIdx = Len(projSorted) + 1
    /\ \A i \in 1..Len(projSorted) :
         /\ mapHas(Returned.taskTimelines, projSorted[i].id)
         /\ LacksLedger(projSorted[i]) =>
              IsNullTimeline(Val(mapGet(Returned.taskTimelines, projSorted[i].id)))

\* C19: a task whose assignedTo id has no ledger gets a timeline with null
\* dates, null scheduledWeek and isScheduled = false; the step changes no
\* ledger bucket and the call goes on, so that every task of the sorted list
\* has its timeline when the call returns.
C19_MissingLedgerIsUnscheduled == [][C19_MissingLedgerStep]_vars /\ []C19_AllProcessed

\* A returned schedule in which a task without ledger was processed before a
\* task that was placed.
C19_Witness ==
  /\ ScheduleReturned
  /\ \E i, j \in 1..Len(projSorted) :
       /\ i < j
       /\ LacksLedger(projSorted[i])
       /\ ~IsNull(Val(mapGet(Returned.taskTimelines, projSorted[j].id)).estimatedStartDate)

-----------------------------------------------------------------------------
(* Claims about resources without capacity *)

\* The planner's ledger i holds nothing but the hours committed beforehand and
\* no assignment names its resource.
PlannerLeavesEmpty(i) ==
  /\ \A w \in 1..Len(schedules[i].weeks) :
       /\ schedules[i].weeks[w].tasks = <<>>
       /\ schedules[i].weeks[w].assignedHours
            = (IF w = 1 THEN committedHours(i) ELSE 0)
  /\ \A k \in 1..Len(assignments) : assignments[k].resourceId # schedules[i].resourceId

\* The projector's ledger holds no placement and no hours.
ProjectorLeavesEmpty(ledger) ==
  \A w \in 1..Len(ledger.weeks) :
    /\ ledger.weeks[w].tasks = <<>>
    /\ ledger.weeks[w].assignedHours = 0

\* C20: a resource whose weekly capacity is zero or negative (its committed
\* hours being non-negative) never receives a placement from the projector nor
\* an assignment from the planner, and the planner never computes the
\* utilization assignedHours / weeklyCapacity of a resource whose weeklyCapacity
\* is 0: for a task that reaches the fit test no week of such a resource fits,
\* and the score is computed for a week that fits only.
C20_NoCapacityNoWork ==
  /\ \A i \in 1..Len(schedules) :
       (schedules[i].weeklyCapacity <= 0 /\ committedHours(i) >= 0) => PlannerLeavesEmpty(i)
  /\ (pc = "loop" /\ idx <= Len(sortedTasks) /\ HasPositiveHours(sortedTasks[idx])) =>
       \A i \in 1..Len(schedules) :
         (schedules[i].weeklyCapacity = 0 /\ committedHours(i) >= 0) =>
           /\ ~HasRoom(i, Val(sortedTasks[idx].estimatedHours))
           /\ firstFitWeek(sortedTasks[idx], schedules[i]) = 0
  /\ \A i \in 1..Len(resourceSchedules) :
       resourceSchedules[i].value.weeklyCapacity <= 0 =>
         ProjectorLeavesEmpty(resourceSchedules[i].value)

\* Both calls have returned.  The planner's first resource has capacity 0 and
\* is compatible with every task: the tasks went to the other resource.  The
\* projector's tree has a task of a resource of capacity 0, which was not
\* placed, and a task that was.
C20_Witness ==
  /\ PlanReturned
  /\ Len(resources) = 2
  /\ resources[1].weeklyHours = 0
  /\ Len(assignments) >= 1
  /\ \A k \in 1..Len(assignments) : assignments[k].resourceId = resources[2].id
  /\ ScheduleReturned
  /\ \E i \in 1..Len(resourceSchedules) :
       /\ resourceSchedules[i].value.weeklyCapacity = 0
       /\ ProjectorLeavesEmpty(resourceSchedules[i].value)
  /\ \E i \in 1..Len(resourceSchedules) : resourceSchedules[i].value.weeks[1].tasks # <<>>

-----------------------------------------------------------------------------
(* Claims about the planner: the summary *)

HasSuggestion(sm, template) ==
  \E i \in 1..Len(sm.suggestions) : sm.suggestions[i].template = template

\* Some resource of the plan has week-1 assigned hours above 90% of its capacity.
SomeNearCapacity ==
  \E i \in 1..Len(Plan.schedules) :
    Plan.schedules[i].weeks[1].assignedHours * 10 > Plan.schedules[i].weeklyCapacity * 9

C21_SummaryOf(sm) ==
  LET overflow == Plan.summary.overflowTasks > 0
  IN  /\ HasSuggestion(sm, "Consider increasing team capacity for unscheduled tasks") <=> overflow
      /\ HasSuggestion(sm, "Extend planning horizon beyond 12 weeks") <=> overflow
      /\ HasSuggestion(sm, "Split large tasks into smaller chunks") <=> overflow
      /\ (sm.title # "Assignment Complete") <=> overflow
      /\ HasSuggestion(sm, "{1} team member(s) near capacity limit") <=> SomeNearCapacity
      /\ Len(sm.suggestions) = (IF overflow THEN 3 ELSE 0) + (IF SomeNearCapacity THEN 1 ELSE 0)

C21_SummaryState == ~IsNull(schedulingSummary) => C21_SummaryOf(Val(schedulingSummary))

C21_SummaryStep ==
  (IsNull(schedulingSummary) /\ ~IsNull(schedulingSummary')) =>
    /\ preview' = preview
    /\ schedules' = schedules
    /\ assignments' = assignments

\* C21: getSchedulingSummary gives the three capacity/horizon/split suggestions
\* and a title other than 'Assignment Complete' exactly when
\* summary.overflowTasks > 0, the near-capacity suggestion exactly when some
\* resource's week-1 assignedHours exceeds 90% of its weeklyCapacity, and no
\* other suggestion; it changes nothing in the plan.
C21_SummarySuggestions == []C21_SummaryState /\ [][C21_SummaryStep]_vars

\* A summary with the capacity suggestion alone, for a plan without overflow
\* that also has a resource at exactly 90% of its capacity.
C21_Witness ==
  /\ ~IsNull(schedulingSummary)
  /\ Len(Val(schedulingSummary).suggestions) = 1
  /\ Val(schedulingSummary).title = "Assignment Complete"
  /\ Len(tasks) >= 1
  /\ \E i \in 1..Len(Plan.schedules) :
       Plan.schedules[i].weeks[1].assignedHours * 10 = Plan.schedules[i].weeklyCapacity * 9

\* A summary with all four suggestions.
C21_AllSuggestions ==
  /\ ~IsNull(schedulingSummary)
  /\ Len(Val(schedulingSummary).suggestions) = 4

-----------------------------------------------------------------------------
(* Claims about the planner: the week chosen across the team *)

\* Every resource has a positive capacity and non-negative committed hours.
SoundResources ==
  \A r \in 1..Len(resources) : resources[r].weeklyHours > 0 /\ committedHours(r) >= 0

\* Some role-compatible resource has room for h hours in week 1 before the step.
Week1RoomFor(task, h) ==
  \E s \in 1..Len(schedules) :
    /\ RoleRule(task.requiredRole, schedules[s].role)
    /\ schedules[s].weeks[1].availableHours >= h

IsUrgent(task) == numGreaterOrEqual(task.priority, Number(PRIORITY_THRESHOLD_HIGH))

\* literal roleCompatibility inherits ('constructor', '__proto__', ...).
OwnOrUnknownRole(task) == roleCompatibility(toLowerCase(task.requiredRole)).isArray

\* The role-compatible resources with room for the current task before the step.
Candidates ==
  { s \in 1..Len(schedules) :
      /\ RoleRule(CurrentTask.requiredRole, schedules[s].role)
      /\ HasRoom(s, Val(CurrentTask.estimatedHours)) }

\* The earliest week in which one of them has room.
EarliestTeamWeek == SetMin({ FirstRoom(s, Val(CurrentTask.estimatedHours)) : s \in Candidates })

\* The step leaves the earlier assignments and placements as they were.
KeepsEarlierPlacements ==
  /\ \A k \in 1..Len(assignments) : assignments'[k] = assignments[k]
  /\ \A s \in 1..Len(schedules) : \A w \in 1..MAX_WEEKS :
       \A k \in 1..Len(schedules[s].weeks[w].tasks) :
         schedules'[s].weeks[w].tasks[k] = schedules[s].weeks[w].tasks[k]

\* C23: every assigned task is placed in the earliest week in which any
\* role-compatible resource had sufficient room for it when it was processed,
\* and earlier placements are never revisited.
C23_EarliestWeekAcrossTeam ==
  [][ CommitsTask =>
        /\ NewAssignment.scheduledWeek = EarliestTeamWeek
        /\ KeepsEarlierPlacements
    ]_vars

\* C24: for every task the planner assigns, the assigned week is at most one
\* week later than the earliest week in which any role-compatible resource had
\* availableHours >= the task's hours when the task was processed (resources
\* with positive capacity and non-negative committed hours).
C24_AtMostOneWeekLate ==
  [][ (CommitsTask /\ SoundResources) =>
        /\ NewAssignment.scheduledWeek >= EarliestTeamWeek
        /\ NewAssignment.scheduledWeek <= EarliestTeamWeek + 1
    ]_vars

\* The schedule the new assignment names.
ChosenSchedule == findScheduleIndex(schedules, NewAssignment.resourceId)

\* Utilization of week w of schedule r is lower than / equal to that of s.
LowerUtilization(r, s, w) ==
  schedules[r].weeks[w].assignedHours * schedules[s].weeklyCapacity
    < schedules[s].weeks[w].assignedHours * schedules[r].weeklyCapacity
SameUtilization(r, s, w) ==
  schedules[r].weeks[w].assignedHours * schedules[s].weeklyCapacity
    = schedules[s].weeks[w].assignedHours * schedules[r].weeklyCapacity

\* C25: among the role-compatible resources whose first-fit week for the task
\* is the week it is assigned to, the planner chooses the one with the lowest
\* utilization of that week before the placement, and the earliest in the
\* resource list when utilizations are equal.
C25_LowestUtilizationWins ==
  [][ (CommitsTask /\ SoundResources) =>
        LET r == ChosenSchedule
            w == NewAssignment.scheduledWeek
        IN  /\ r \in Candidates
            /\ FirstRoom(r, Val(CurrentTask.estimatedHours)) = w
            /\ \A s \in Candidates \ {r} :
                 FirstRoom(s, Val(CurrentTask.estimatedHours)) = w =>
                   \/ LowerUtilization(r, s, w)
                   \/ SameUtilization(r, s, w) /\ r < s
    ]_vars

-----------------------------------------------------------------------------
(* Claims about the projector: order and shape of the placements *)

\* Task a of the flattened tree is processed before task b: higher priority,
\* or equal priority and earlier in depth-first order.
ProcessedBefore(flat, a, b) ==
  \/ numGreater(flat[a].priority, flat[b].priority)
  \/ numEqual(flat[a].priority, flat[b].priority) /\ a < b

\* C26: for two tasks on the same resource that both received placements, if
\* a is processed before b (higher priority, or equal priority and earlier in
\* depth-first order), the last week holding hours of a is <= the first week
\* holding hours of b.
C26_EarlierTaskEndsFirst ==
  LET flat == flattenTasks(projTasks)
  IN  \A a, b \in 1..Len(flat) :
        ( /\ a # b
          /\ ProcessedBefore(flat, a, b)
          /\ flat[a].assignedTo = flat[b].assignedTo
          /\ WeeksTouched(resourceSchedules, flat[a].id) # {}
          /\ WeeksTouched(resourceSchedules, flat[b].id) # {} )
        => SetMax(WeeksTouched(resourceSchedules, flat[a].id))
             <= SetMin(WeeksTouched(resourceSchedules, flat[b].id))

\* A returned schedule with two tasks of equal priority on one resource, the
\* one earlier in the tree ending in the week in which the other starts, and
\* that other one going on into later weeks.
C26_Witness ==
  /\ ScheduleReturned
  /\ LET flat == flattenTasks(projTasks)
     IN  \E a, b \in 1..Len(flat) :
           /\ a < b
           /\ numEqual(flat[a].priority, flat[b].priority)
           /\ flat[a].assignedTo = flat[b].assignedTo
           /\ WeeksTouched(resourceSchedules, flat[a].id) # {}
           /\ WeeksTouched(resourceSchedules, flat[b].id) # {}
           /\ SetMax(WeeksTouched(resourceSchedules, flat[a].id))
                = SetMin(WeeksTouched(resourceSchedules, flat[b].id))
           /\ Cardinality(WeeksTouched(resourceSchedules, flat[b].id)) >= 2

\* The ledger is a filled prefix: full weeks, at most one partly filled week,
\* empty weeks.
FilledPrefix(ledger) ==
  \E k \in 1..Len(ledger.weeks) :
    /\ \A w \in 1..(k - 1) : ledger.weeks[w].assignedHours = ledger.weeklyCapacity
    /\ \A w \in (k + 1)..Len(ledger.weeks) : ledger.weeks[w].assignedHours = 0

\* The weeks holding hours of the task are consecutive week numbers.
ConsecutiveWeeks(m, id) ==
  LET touched == WeeksTouched(m, id)
  IN  touched # {} => touched = SetMin(touched)..SetMax(touched)

\* C27: after every placement each resource ledger is a filled prefix (every
\* week before some week k has assignedHours = weeklyCapacity, every week
\* after k has assignedHours = 0), and the weeks holding hours of any one task
\* are consecutive.
C27_FilledPrefix ==
  /\ \A i \in 1..Len(resourceSchedules) : FilledPrefix(resourceSchedules[i].value)
  /\ \A i \in 1..Len(flattenTasks(projTasks)) :
       ConsecutiveWeeks(resourceSchedules, flattenTasks(projTasks)[i].id)

\* A returned ledger with a full week shared by two tasks, then a partly
\* filled week, then an empty week.
C27_Witness ==
  /\ ScheduleReturned
  /\ \E i \in 1..Len(resourceSchedules) :
       LET ledger == resourceSchedules[i].value
       IN  \E k \in 2..(WEEKS_TO_CALCULATE - 1) :
             /\ ledger.weeks[k - 1].assignedHours = ledger.weeklyCapacity
             /\ Len(ledger.weeks[k - 1].tasks) = 2
             /\ ledger.weeks[k].assignedHours > 0
             /\ ledger.weeks[k].assignedHours < ledger.weeklyCapacity
             /\ ledger.weeks[k + 1].assignedHours = 0

\* The step schedules a task that has a ledger and a positive estimate and
\* leaves it with isScheduled = false.
LeavesTaskUnscheduled ==
  /\ SchedulesOneTask
  /\ ~IsNull(projSorted[projIdx].assignedTo)
  /\ HasPositiveHours(projSorted[projIdx])
  /\ IF IsNull(projSorted[projIdx].assignedTo) THEN FALSE
     ELSE mapHas(resourceSchedules, Val(projSorted[projIdx].assignedTo))
  /\ mapHas(taskTimelines', projSorted[projIdx].id)
  /\ ~Val(mapGet(taskTimelines', projSorted[projIdx].id)).isScheduled

LedgerAfterStep == Val(mapGet(resourceSchedules', Val(projSorted[projIdx].assignedTo)))

\* C28 as stated: if a task with a ledger and a positive estimate is left with
\* isScheduled = false, then every week of its resource, whatever the
\* capacity, has assignedHours = weeklyCapacity after the task is processed.
C28_AsStated ==
  [][ LeavesTaskUnscheduled =>
        \A w \in 1..Len(LedgerAfterStep.weeks) :
          LedgerAfterStep.weeks[w].assignedHours = LedgerAfterStep.weeklyCapacity
    ]_vars

\* C28: if a task with a ledger and a positive estimate is left with
\* isScheduled = false, then after the task is processed every one of the
\* weeks of its resource has assignedHours = weeklyCapacity when the capacity
\* is not negative, and assignedHours = 0 when it is negative.
C28_UnscheduledMeansFull ==
  [][ LeavesTaskUnscheduled =>
        /\ Len(LedgerAfterStep.weeks) = WEEKS_TO_CALCULATE
        /\ \A w \in 1..Len(LedgerAfterStep.weeks) :
             LedgerAfterStep.weeks[w].assignedHours = Max(0, LedgerAfterStep.weeklyCapacity)
    ]_vars

\* A returned schedule with a partly placed task whose resource has all its
\* weeks full, the last one included.
C28_Witness ==
  /\ ScheduleReturned
  /\ \E i \in 1..Len(Returned.taskTimelines) :
       LET tl == Returned.taskTimelines[i].value
           task == TreeTaskOfId(tl.taskId)
       IN  /\ ~tl.isScheduled
           /\ ~IsNull(tl.scheduledWeek)
           /\ HorizonExhausted(resourceSchedules, Val(task.assignedTo))
           /\ Val(mapGet(resourceSchedules, Val(task.assignedTo))).weeklyCapacity > 0
           /\ PlacedHours(resourceSchedules, tl.taskId) < Val(task.estimatedHours)

-----------------------------------------------------------------------------
(* Claims about the books of the ledgers *)

PlannerBooksOf(scheds) ==
  \A s \in 1..Len(scheds) : \A w \in 1..Len(scheds[s].weeks) :
    LET bucket == scheds[s].weeks[w]
    IN  /\ bucket.assignedHours + bucket.availableHours = scheds[s].weeklyCapacity
        /\ scheds[s].weeklyCapacity = resources[s].weeklyHours
        /\ bucket.assignedHours
             = (IF w = 1 THEN committedHours(s) ELSE 0) + PlacedHoursInBucket(bucket.tasks)

\* C29: in every planner bucket, initially and after every commit,
\* assignedHours + availableHours = the resource's weeklyCapacity, and
\* assignedHours = (the committed hours if the bucket is week 1, else 0) + the
\* sum of the hours of the placements listed in the bucket.
C29_PlannerBooksBalance ==
  /\ PlannerBooksOf(schedules)
  /\ PlanReturned => PlannerBooksOf(Plan.schedules)

\* A returned plan with a bucket of week 1 holding committed hours and two
\* placements, and a placement in a later week.
C29_Witness ==
  /\ PlanReturned
  /\ \E s \in 1..Len(schedules) :
       /\ committedHours(s) > 0
       /\ Len(schedules[s].weeks[1].tasks) = 2
  /\ \E s \in 1..Len(schedules) : schedules[s].weeks[2].tasks # <<>>

\* C30: in the projector's result, each bucket's assignedHours equals the sum
\* of the hours of its placements, and for every processed task the hours of
\* its placements sum to its estimatedHours when isScheduled is true and to
\* strictly less than its estimatedHours when isScheduled is false.
C30_ProjectorBooksBalance ==
  ScheduleReturned =>
    /\ \A i \in 1..Len(Returned.resourceSchedules) :
         \A w \in 1..Len(Returned.resourceSchedules[i].value.weeks) :
           LET bucket == Returned.resourceSchedules[i].value.weeks[w]
           IN  bucket.assignedHours = PlacedHoursInBucket(bucket.tasks)
    /\ \A i \in 1..Len(Returned.taskTimelines) :
         LET tl == Returned.taskTimelines[i].value
             task == TreeTaskOfId(tl.taskId)
             placed == PlacedHours(Returned.resourceSchedules, tl.taskId)
         IN  IF tl.isScheduled THEN placed = Val(task.estimatedHours)
             ELSE placed < Val(task.estimatedHours)

====
